---- MODULE Spec2Model ----
(***************************************************************************)
(* ChronoGuard Lite: the tamper-evident audit chain (crypto/chain.py,      *)
(* crypto/hasher.py, crypto/verifier.py) and the read-write lock           *)
(* (concurrency/rwlock.py).                                                *)
(*                                                                         *)
(* Hash values are modelled as terms: a digest is the record of the        *)
(* algorithm, the key and the canonical byte string it was computed from,  *)
(* so two digests are equal exactly when their inputs are (SHA-256 and     *)
(* HMAC-SHA-256 taken as collision free).  Positions in the chain are      *)
(* 0-based as in the source; the TLA+ sequence holding them is 1-based.    *)
(***************************************************************************)
EXTENDS Integers, Sequences, FiniteSets, TLC

\* ------------------------------------------------------------------ bounds

\* longest chain built by append
MaxLen == 3
\* appends each thread of the concurrent scenario performs
MaxAppends == 2

VARIABLES
    \* AuditChain
    entries,        \* AuditChain._entries : sequence of ChainedEntry
    head_hash,      \* AuditChain._head_hash
    secret_key,     \* AuditChain._secret_key ("None" = plain SHA-256)
    \* environment: what was done to _entries behind the chain's back
    tamper,         \* the one tampering applied to _entries, if any
    \* last ChainVerifier call on the chain as it stands now
    ver,
    \* concurrent callers of AuditChain.append
    a_pc,           \* thread -> position inside append
    a_loc,          \* thread -> locals of append (entry, seq, previous, current)
    \* ReadWriteLock
    _readers,           \* threads inside a read section
    _writers_waiting,   \* threads registered as waiting for the write lock
    _writer_active,     \* a thread is inside a write section
    cond_owner,         \* holder of the lock inside _cond, or None
    cond_waiters,       \* threads blocked in _cond.wait(), not yet notified
    rw_pc,              \* thread -> position inside read() / write()
    \* StripedMap (and the ConcurrentPolicyCache built on it)
    _stripes,       \* stripe index -> dict of that stripe
    _locks,         \* stripe index -> state of that stripe's ReadWriteLock
    sm_pc,          \* thread -> position inside its StripedMap call
    sm_loc,         \* thread -> the call it is making and its locals
    sm_calls,       \* number of calls made so far
    sm_model,       \* the dict a one-call-at-a-time execution would hold
    sm_hist,        \* the ConcurrentPolicyCache calls that have returned
    \* ColumnarAuditStore: one column per field, row i of every column
    \* belongs to the i-th entry stored
    _timestamps, _agent_ids, _domains, _decisions, _reasons, _policy_ids,
    _rule_ids, _entry_ids, _methods, _paths, _source_ips, _latencies,
    _count,         \* ColumnarAuditStore._count
    cs_result,      \* the last call on the store and what it gave
    cs_accepted,    \* the entries whose append returned, in call order
    \* ConcurrentAuditLog, whose backing store is the ColumnarAuditStore
    _buffer,        \* ConcurrentAuditLog._buffer, oldest entry first
    _running,       \* ConcurrentAuditLog._running
    _flush_thread,  \* ConcurrentAuditLog._flush_thread: None or the thread
    _flush_count,   \* ConcurrentAuditLog._flush_count
    al_pc,          \* thread -> position inside start / stop / _flush_loop
    al_loc,         \* thread -> locals of _flush_buffer (entry, flushed)
    al_handed,      \* the entries handed to append(), in call order
    al_dropped,     \* number of entries dropped as out of order
    al_phase,       \* open, stopping, stopped, or late (an append since stop)
    \* AsyncInterceptor, its asyncio.Queue and the event loop that runs it
    _server,        \* None, "listening" or "closed"
    _queue,         \* the items in self._queue, oldest first
    _putters,       \* tasks suspended in queue.put(), in order of arrival
    _getters,       \* tasks suspended in queue.get()
    _requests_processed,
    _queue_full_count,
    ai_ready,       \* the event loop's ready queue: tasks to resume, in order
    ai_running,     \* the task that is running, or None
    ai_pc,          \* task -> where it is suspended or running
    ai_entry,       \* handler -> the AuditEntry it created, or None
    ai_batch,       \* _flush_loop's batch
    ai_clock,       \* time.time()
    ai_received,    \* the entries created for the requests received so far
    ai_input,       \* handler -> what its client sent, None before it did
    ai_enqueued,    \* the tasks whose queue.put has put its item in the queue
    ai_responded,   \* the handlers that have written their response
    \* ThreadedInterceptor: the worker threads of its pool, one connection
    \* each; they share the columnar store
    th_pc,          \* worker -> where it is in _handle_connection
    th_loc,         \* worker -> its entry and the count it read
    th_clock,       \* time.time()
    th_responded,   \* the workers that have sent their response
    th_requests_processed,
    \* the domain model and the evaluators, one call at a time
    ev_call,        \* the last PolicyEvaluator.evaluate call and its result
    ag_status,      \* Agent.status
    ag_hist,        \* the calls made on the agent, with their outcome
    po_status,      \* Policy.status
    po_rules,       \* Policy.rules, as the list of the rule ids
    po_hist,        \* the calls made on the policy, with their outcome
    _policies,      \* PolicyEngine._policies: the registered policies
    graph_nodes,    \* the keys of Graph._fwd, in the order they were added
    _fwd,           \* Graph._fwd: the list of successors of each node
    _rev,           \* Graph._rev: the list of predecessors of each node
    _order,         \* PolicyEngine._order
    _built,         \* PolicyEngine._built
    en_report,      \* what evaluate returned or raised, if it was the last call
    en_calls,       \* register and add_dependency calls made so far
    _rev_keys,      \* the keys of Graph._rev
    g_calls,        \* calls made on a Graph used on its own
    g_result,       \* what the last function called on the graph returned
    _patterns,      \* DomainMatcher._patterns, each pattern as its segments
    ac_output,      \* the output list of each node of the automaton
    dm_built,       \* DomainMatcher._built and AhoCorasick._built
    dm_result,      \* what the last match call on the matcher returned
    _postings,      \* InvertedIndex._postings: per field, the (term, idx) pairs
    _entries,       \* AuditSearchEngine._entries
    se_result       \* what the last search call on the engine returned

chain_vars == <<entries, head_hash, secret_key, tamper, ver>>
append_vars == <<a_pc, a_loc>>
rw_vars == <<_readers, _writers_waiting, _writer_active, cond_owner,
             cond_waiters, rw_pc>>
map_vars == <<_stripes, _locks, sm_pc, sm_loc, sm_calls, sm_model, sm_hist>>
\* the chain and the lock on its own; the components built on them
core_vars == <<chain_vars, append_vars, rw_vars>>
columns == <<_timestamps, _agent_ids, _domains, _decisions, _reasons,
             _policy_ids, _rule_ids, _entry_ids, _methods, _paths,
             _source_ips, _latencies>>
store_vars == <<columns, _count, cs_result, cs_accepted>>
log_vars == <<_buffer, _running, _flush_thread, _flush_count, al_pc, al_loc,
              al_handed, al_dropped, al_phase>>
icpt_vars == <<_server, _queue, _putters, _getters, _requests_processed,
               _queue_full_count, ai_ready, ai_running, ai_pc, ai_entry,
               ai_batch, ai_clock, ai_received, ai_input, ai_enqueued,
               ai_responded>>
th_vars == <<th_pc, th_loc, th_clock, th_responded, th_requests_processed>>
ev_vars == <<ev_call>>
ag_vars == <<ag_status, ag_hist>>
po_vars == <<po_status, po_rules, po_hist>>
en_vars == <<_policies, graph_nodes, _fwd, _rev, _order, _built, en_report,
            en_calls, _rev_keys>>
gr_vars == <<g_calls, g_result>>
dm_vars == <<_patterns, ac_output, dm_built, dm_result>>
se_vars == <<_postings, _entries, se_result>>
dom_vars == <<ev_vars, ag_vars, po_vars, en_vars, gr_vars, dm_vars, se_vars>>
ext_vars == <<map_vars, store_vars, log_vars, icpt_vars, th_vars, dom_vars>>
vars == <<chain_vars, append_vars, rw_vars, ext_vars>>

\* ------------------------------------------------------- domain/audit.py

None == "None"

AuditFields ==
    <<"entry_id", "agent_id", "domain", "decision", "timestamp", "reason",
      "policy_id", "rule_id", "request_method", "request_path", "source_ip",
      "processing_time_ms">>

AccessDecision == {"ALLOW", "DENY", "RATE_LIMITED", "NO_MATCHING_POLICY"}

\* the values a field of an AuditEntry ranges over in this model
FieldValues(f) ==
    CASE f = "entry_id"           -> {"e1", "e2"}
      [] f = "agent_id"           -> {"a1", "a2"}
      [] f = "domain"             -> {"api.example.com", "evil.com"}
      [] f = "decision"           -> AccessDecision
      [] f = "timestamp"          -> {1700000000, 1700000001}
      [] f = "reason"             -> {"policy matched", "unknown agent"}
      [] f = "policy_id"          -> {None, "p1"}
      [] f = "rule_id"            -> {None, "u1"}
      [] f = "request_method"     -> {"GET", "POST"}
      [] f = "request_path"       -> {"/", "/v1/chat"}
      [] f = "source_ip"          -> {"0.0.0.0", "10.0.0.1"}
      [] f = "processing_time_ms" -> {0, 1}

AuditEntry(eid, agent, dom, dec, ts, why, pol, rule) ==
    [entry_id |-> eid, agent_id |-> agent, domain |-> dom, decision |-> dec,
     timestamp |-> ts, reason |-> why, policy_id |-> pol, rule_id |-> rule,
     request_method |-> "GET", request_path |-> "/", source_ip |-> "0.0.0.0",
     processing_time_ms |-> 0]

\* the entries callers hand to append
EntryPool ==
    { AuditEntry("e1", "a1", "api.example.com", "ALLOW", 1700000000,
                 "policy matched", "p1", "u1"),
      AuditEntry("e2", "a2", "api.example.com", "DENY", 1700000001,
                 "unknown agent", None, None) }

\* ------------------------------------------------------ crypto/hasher.py

_NONE_SENTINEL == "\\x00"

\* a length-prefixed field: one self-delimiting part of the byte stream
_lp(data) == <<data>>

\* _canonicalize with the reason field left out of the byte stream
_canonicalize_without_reason(entry, previous_hash) ==
       _lp(entry.entry_id)
    \o _lp(entry.agent_id)
    \o _lp(entry.domain)
    \o _lp(entry.decision)
    \o _lp(entry.timestamp)
    \o _lp(IF entry.policy_id # None THEN entry.policy_id ELSE _NONE_SENTINEL)
    \o _lp(IF entry.rule_id # None THEN entry.rule_id ELSE _NONE_SENTINEL)
    \o _lp(entry.request_method)
    \o _lp(entry.request_path)
    \o _lp(entry.source_ip)
    \o _lp(entry.processing_time_ms)
    \o _lp(previous_hash)

_canonicalize(entry, previous_hash) ==
       _lp(entry.entry_id)
    \o _lp(entry.agent_id)
    \o _lp(entry.domain)
    \o _lp(entry.decision)
    \o _lp(entry.timestamp)
    \o _lp(entry.reason)
    \o _lp(IF entry.policy_id # None THEN entry.policy_id ELSE _NONE_SENTINEL)
    \o _lp(IF entry.rule_id # None THEN entry.rule_id ELSE _NONE_SENTINEL)
    \o _lp(entry.request_method)
    \o _lp(entry.request_path)
    \o _lp(entry.source_ip)
    \o _lp(entry.processing_time_ms)
    \o _lp(previous_hash)

hash_entry(entry, previous_hash) ==
    [alg |-> "sha256", key |-> None,
     data |-> _canonicalize(entry, previous_hash)]

hmac_entry(entry, previous_hash, key) ==
    [alg |-> "hmac-sha256", key |-> key,
     data |-> _canonicalize(entry, previous_hash)]

\* keys a chain may be constructed with (None: plain mode)
SecretKeys == {None, "k1"}

\* ------------------------------------------------------- crypto/chain.py

GENESIS_HASH == [alg |-> "genesis", key |-> None, data |-> <<>>]

ChainedEntry(entry, previous_hash, current_hash, sequence_number) ==
    [entry |-> entry, previous_hash |-> previous_hash,
     current_hash |-> current_hash, sequence_number |-> sequence_number]

\* the digest append computes for `entry` on top of `previous`
AppendHash(key, entry, previous) ==
    IF key # None THEN hmac_entry(entry, previous, key)
    ELSE hash_entry(entry, previous)

\* ---------------------------------------------------- crypto/verifier.py

\* _compute_hash that ignores the chain's key
_compute_hash_plain(key, entry, previous_hash) ==
    hash_entry(entry, previous_hash)

_compute_hash(key, entry, previous_hash) ==
    IF key # None THEN hmac_entry(entry, previous_hash, key)
    ELSE hash_entry(entry, previous_hash)

ChainVerificationResult(ok, verified, seq, expected, actual, msg) ==
    [is_valid |-> ok, entries_verified |-> verified,
     first_invalid_sequence |-> seq, expected_hash |-> expected,
     actual_hash |-> actual, error_message |-> msg]

LinkBroken == "Chain link broken"
HashMismatch == "Hash mismatch"

\* ExpectedPrev that trusts every stored previous_hash after position 0
ExpectedPrev_trusting(chain, start, seq) ==
    IF seq = 0 THEN GENESIS_HASH ELSE chain[seq + 1].previous_hash

\* ExpectedPrev without the genesis case
ExpectedPrev_no_genesis(chain, start, seq) ==
    IF seq = start THEN chain[seq + 1].previous_hash
    ELSE chain[seq].current_hash

\* ExpectedPrev that compares the start of a range with its predecessor too
ExpectedPrev_strict(chain, start, seq) ==
    IF seq = 0 THEN GENESIS_HASH ELSE chain[seq].current_hash

\* the predecessor hash position seq is compared with
ExpectedPrev(chain, start, seq) ==
    IF seq = 0 THEN GENESIS_HASH
    ELSE IF seq = start THEN chain[seq + 1].previous_hash
    ELSE chain[seq].current_hash

\* the loop with the two checks in the other order
RECURSIVE VerifyLoop_hash_first(_, _, _, _, _, _)
VerifyLoop_hash_first(chain, key, start, end, seq, verified) ==
    IF seq >= end
    THEN ChainVerificationResult(TRUE, verified, None, None, None, None)
    ELSE LET chained == chain[seq + 1]
             expected_prev == IF seq = 0 THEN GENESIS_HASH
                              ELSE IF seq = start THEN chained.previous_hash
                              ELSE chain[seq].current_hash
             recomputed == IF key # None
                           THEN hmac_entry(chained.entry, chained.previous_hash, key)
                           ELSE hash_entry(chained.entry, chained.previous_hash)
         IN  IF recomputed # chained.current_hash
             THEN ChainVerificationResult(FALSE, verified, seq, recomputed,
                                          chained.current_hash, HashMismatch)
             ELSE IF chained.previous_hash # expected_prev
             THEN ChainVerificationResult(FALSE, verified, seq, expected_prev,
                                          chained.previous_hash, LinkBroken)
             ELSE VerifyLoop_hash_first(chain, key, start, end, seq + 1,
                                        verified + 1)

RECURSIVE VerifyLoop(_, _, _, _, _, _)
VerifyLoop(chain, key, start, end, seq, verified) ==
    IF seq >= end
    THEN ChainVerificationResult(TRUE, verified, None, None, None, None)
    ELSE LET chained == chain[seq + 1]
             expected_prev == ExpectedPrev(chain, start, seq)
             recomputed == _compute_hash(key, chained.entry,
                                         chained.previous_hash)
         IN  IF chained.previous_hash # expected_prev
             THEN ChainVerificationResult(FALSE, verified, seq, expected_prev,
                                          chained.previous_hash, LinkBroken)
             ELSE IF recomputed # chained.current_hash
             THEN ChainVerificationResult(FALSE, verified, seq, recomputed,
                                          chained.current_hash, HashMismatch)
             ELSE VerifyLoop(chain, key, start, end, seq + 1, verified + 1)

_verify_range_internal(chain, key, start, end) ==
    VerifyLoop(chain, key, start, end, start, 0)

verify_full(chain, key) ==
    IF Len(chain) = 0
    THEN ChainVerificationResult(TRUE, 0, None, None, None, None)
    ELSE _verify_range_internal(chain, key, 0, Len(chain))

\* defined for the ranges that do not raise ValueError
RangeOk(chain, start, end) ==
    ~(start < 0 \/ end > Len(chain) \/ start >= end)

verify_range(chain, key, start, end) ==
    _verify_range_internal(chain, key, start, end)

\* ---------------------------------------------------------------------
\* concurrency/striped_map.py -- the data of a StripedMap

\* num_stripes, a positive power of two
_num_stripes == 2
_mask == _num_stripes - 1
StripeIndexes == 0 .. _mask

\* the keys in use are small non-negative integers, 0 .. MaxKey
MaxKey == 2
Keys == 0 .. MaxKey
\* calls made on the map in one run
MaxCalls == 3

\* hash(key) of a small non-negative int is the int itself
hash(key) == key

\* hash(key) & self._mask; the mask is 2^n - 1, so this is the remainder
_stripe_index(key) == hash(key) % (_mask + 1)

\* a dict is a function on the set of its keys
EmptyDict == <<>>
dict_has(d, key) == key \in DOMAIN d
dict_get(d, key, default) == IF key \in DOMAIN d THEN d[key] ELSE default
dict_set(d, key, value) ==
    [k \in DOMAIN d \cup {key} |-> IF k = key THEN value ELSE d[k]]
dict_del(d, key) == [k \in DOMAIN d \ {key} |-> d[k]]

\* a stripe's ReadWriteLock, seen from outside: the number of threads inside
\* read sections and whether a thread is inside a write section
FreeLock == [_readers |-> 0, _writer_active |-> FALSE]

\* what a thread that is in no call holds
NoMapCall == [call |-> None]

\* ---------------------------------------------------------------------
\* store/columnar_store.py -- the data of a ColumnarAuditStore

\* rows a store holds at most in this model
MaxRows == 3
\* timestamps of the entries handed to the store: 1 .. MaxTime
MaxTime == 3

\* uuid.UUID.bytes and uuid.UUID(bytes=...)
uuid_bytes(u) == <<"bytes", u>>
uuid_from_bytes(b) == b[2]

\* AccessDecision.value (auto() numbers the members from 1) and
\* AccessDecision(value)
decision_value(d) ==
    CASE d = "ALLOW" -> 1
      [] d = "DENY" -> 2
      [] d = "RATE_LIMITED" -> 3
      [] d = "NO_MATCHING_POLICY" -> 4
decision_of_value(v) == CHOOSE d \in AccessDecision : decision_value(d) = v

METHOD_ENCODING ==
    [GET |-> 0, POST |-> 1, PUT |-> 2, DELETE |-> 3, PATCH |-> 4, HEAD |-> 5,
     OPTIONS |-> 6]

\* self.METHOD_ENCODING.get(entry.request_method, 0)
encode_method(method) ==
    IF method \in DOMAIN METHOD_ENCODING THEN METHOD_ENCODING[method] ELSE 0

\* self.METHOD_DECODING.get(self._methods[idx], "GET")
decode_method(code) ==
    IF \E m \in DOMAIN METHOD_ENCODING : METHOD_ENCODING[m] = code
    THEN CHOOSE m \in DOMAIN METHOD_ENCODING : METHOD_ENCODING[m] = code
    ELSE "GET"

\* array('f') keeps the nearest 4-byte float: 0.0 and 0.5 are kept as they
\* are, 0.1 is not
float32(x) == IF x = "0.1" THEN "0.10000000149011612" ELSE x

\* the entries handed to the store: e1 is a POST that took 0.5 ms, e2 a
\* TRACE that took 0.1 ms, each at any of the timestamps
StoreEntry(eid, ts) ==
    [AuditEntry(eid, "a1", "api.example.com",
                IF eid = "e1" THEN "ALLOW" ELSE "DENY", ts,
                "policy matched", IF eid = "e1" THEN "p1" ELSE None, None)
        EXCEPT !.request_method = IF eid = "e1" THEN "POST" ELSE "TRACE",
               !.processing_time_ms = IF eid = "e1" THEN "0.5" ELSE "0.1"]

StoreEntries == {StoreEntry(eid, ts) : eid \in {"e1", "e2"}, ts \in 1 .. MaxTime}

NoStoreCall == [op |-> "none"]

\* ---------------------------------------------------------------------
\* concurrency/concurrent_audit_log.py -- the data of a ConcurrentAuditLog

\* entries handed to append() in one run
MaxHanded == 2

\* the entries producers hand to the log: two entries at each of two times
LogEntries == {StoreEntry(eid, ts) : eid \in {"e1", "e2"}, ts \in {1, 2}}

\* the thread that calls start() and stop(), and the "audit-flush" thread
LogThreads == {"main", "flush"}

\* the locals of a thread that is not inside _flush_buffer
NoFlush == [entry |-> None, flushed |-> 0]

\* ---------------------------------------------------------------------
\* interceptor/async_interceptor.py -- the data of an AsyncInterceptor

\* the connections clients make, each served by one _handle_connection task
Handlers == {"h1", "h2"}

\* the tasks of the event loop: the handlers, _flush_loop, and the caller
\* of stop()
Tasks == Handlers \cup {"flush", "stop"}

\* what a connection can bring: a request that from_bytes parses, a
\* message that is no request, or one of the framing errors of
\* async_read_message.  A request names an active agent of the catalog
\* ("request"), an agent of the catalog that is not active ("inactive"), or
\* an agent id that is not in the catalog, written as a UUID ("unknown") or
\* as any other string ("unknown_text").
FramingErrors == {"incomplete", "reset", "oversized"}
Requests == {"request", "inactive", "unknown", "unknown_text"}
Inputs == Requests \cup {"malformed"} \cup FramingErrors

\* UUID(req.agent_id) raises ValueError for a string that is no UUID
uuid_parses(input) == input # "unknown_text"

\* steps 3-5 of _handle_connection: the EvaluationResult for a request.
\* An agent that is not in the catalog is denied by the interceptor, one
\* that is not active by PolicyEvaluator.evaluate; the active agent of the
\* catalog has a policy that allows the request.
evaluation(input) ==
    IF input \in {"unknown", "unknown_text"}
    THEN [decision |-> "DENY", reason |-> "Unknown agent", policy_id |-> None]
    ELSE IF input = "inactive"
    THEN [decision |-> "DENY", reason |-> "Agent is not ACTIVE",
          policy_id |-> None]
    ELSE [decision |-> "ALLOW", reason |-> "Matched policy",
          policy_id |-> "p1"]

\* step 6: AuditEntry.create(...) from the request and the result
created_entry(h, input, now) ==
    [StoreEntry(h, now) EXCEPT !.decision = evaluation(input).decision,
                               !.reason = evaluation(input).reason,
                               !.policy_id = evaluation(input).policy_id]

\* queue_maxsize
queue_maxsize == 1

\* the sentinel stop() puts in the queue (None in the source; a record here,
\* as the other items of the queue are)
Sentinel == [sentinel |-> TRUE]

\* Flush at most this many entries per cycle
_FLUSH_BATCH_SIZE == 1000

\* ---------------------------------------------------------------------
\* interceptor/threaded.py -- the data of a ThreadedInterceptor

\* the worker threads of the pool that have a connection to handle
Workers == {"w1", "w2"}

\* a worker with no entry in hand
NoWork == [parsed |-> FALSE, entry |-> None, count |-> 0]

\* ---------------------------------------------------------------------
\* domain/policy.py, interceptor/evaluator.py -- policies, rules, requests.
\* A domain name and a pattern are the sequences of their dot-separated
\* parts; the time of a request is a weekday and a time of day.

\* policies in the list given to one evaluate call
MaxPolicies == 2

PolicyStatus == {"DRAFT", "ACTIVE", "SUSPENDED", "ARCHIVED"}

\* PolicyRule(rule_id, domain_pattern, action, priority)
PolicyRule(rule_id, domain_pattern, action, priority) ==
    [rule_id |-> rule_id, domain_pattern |-> domain_pattern,
     action |-> action, priority |-> priority]

\* the domain the requests ask for, and patterns that match it or do not
RequestDomain == <<"api", "openai", "com">>
ExactPattern == <<"api", "openai", "com">>
WildcardPattern == <<"*", "openai", "com">>
OtherPattern == <<"*", "com">>

\* the rule lists of the policies: none, one rule, rules in and against
\* priority order, and rules of equal priority
RuleLists ==
    { <<>>,
      <<PolicyRule("r1", ExactPattern, "ALLOW", 1)>>,
      <<PolicyRule("r1", WildcardPattern, "DENY", 1)>>,
      <<PolicyRule("r1", OtherPattern, "DENY", 1)>>,
      <<PolicyRule("r1", ExactPattern, "ALLOW", 2),
        PolicyRule("r2", WildcardPattern, "DENY", 1)>>,
      <<PolicyRule("r1", WildcardPattern, "ALLOW", 1),
        PolicyRule("r2", ExactPattern, "DENY", 1)>>,
      <<PolicyRule("r1", OtherPattern, "ALLOW", 1),
        PolicyRule("r2", ExactPattern, "DENY", 2)>> }

\* TimeWindow(start_time, end_time, days_of_week), times of day as numbers
TimeWindows == {[start_time |-> 1, end_time |-> 2, days_of_week |-> {0, 1}]}

\* time_window = None (a record here, as the windows are)
NoWindow == [days_of_week |-> {}]

\* no rule matched (a record here, as the rules are)
NoRule == [rule_id |-> None, action |-> None]

\* the moments a request is evaluated at
Moments == {[weekday |-> 0, time |-> 2], [weekday |-> 1, time |-> 3]}

\* the policies given to evaluate: the policy at place i has id i
PolicyShapes ==
    [rules : RuleLists, status : {"ACTIVE", "SUSPENDED"}, priority : {1, 2},
     time_window : {NoWindow} \cup TimeWindows]

NoEval == [called |-> FALSE]

\* ---------------------------------------------------------------------
\* strings/domain_matcher.py -- the data of a DomainMatcher

\* patterns added to a matcher in a run
MaxPatterns == 2

\* the segments of the patterns and of the domains; a pattern or a domain
\* is the sequence of its segments, as split(".") gives it
PatternSegments == {"a", "*"}
DomainSegments == {"a", "b", "*"}
SegmentPaths == UNION {[1 .. k -> PatternSegments] : k \in 0 .. 3}
DomainPatterns == SegmentPaths \ {<<>>}
RequestDomains == UNION {[1 .. k -> DomainSegments] : k \in 1 .. 3}

\* ---------------------------------------------------------------------
\* strings/search_engine.py -- the data of an AuditSearchEngine

\* entries indexed in a run
MaxEntries == 2

\* a string is the sequence of its characters
IndexedFields == {"domain", "agent_id", "decision", "reason"}
IndexedDomains == {<<"a", "b", ".", "c">>, <<"A", "b">>}
IndexedAgents == {<<"a", "1">>, <<"b", "1">>}
DecisionNames == {<<"D", "E", "N", "Y">>, <<"A", "L", "L", "O", "W">>}
IndexedReasons == {<<"a", "b", ".", " ", "c">>, <<"A", "b">>}
IndexedEntries ==
    [domain : IndexedDomains, agent_id : IndexedAgents,
     decision : DecisionNames, reason : IndexedReasons]
QueryValues ==
    {<<"a", "b">>, <<"a">>, <<"a", "b", ".", "c">>, <<"a", "1">>,
     <<"A", "1">>, <<"d", "e", "n", "y">>, <<"D", "E", "N">>,
     <<"a", "b", ".">>}

\* the letters of the strings, lower case and upper case
Letters ==
    {<<"a", "A">>, <<"b", "B">>, <<"c", "C">>, <<"d", "D">>, <<"e", "E">>,
     <<"l", "L">>, <<"n", "N">>, <<"o", "O">>, <<"w", "W">>, <<"y", "Y">>}

\* ---------------------------------------------------------------------
\* graph/policy_engine.py -- the data of a PolicyEngine

\* register and add_dependency calls made on the engine in a run
MaxEngineCalls == 5

\* the ids of the policies given to the engine
EngineIds == {"p1", "p2", "p3"}

\* the policies given to the engine, by their rules: one allows the request's
\* domain, one denies it, one has no rule that matches it
EngineRules ==
    { <<PolicyRule("r1", ExactPattern, "ALLOW", 1)>>,
      <<PolicyRule("r1", WildcardPattern, "DENY", 1)>>,
      <<PolicyRule("r1", OtherPattern, "DENY", 1)>> }

\* calls made on a graph in a run
MaxGraphCalls == 4

\* critical_path is called on graphs made with up to this many calls
MaxPathCalls == 3

\* the weights given to critical_path: a dict from some of the nodes to
\* their cost
WeightValues == {-2, 1, 2}
Weights == UNION {[D -> WeightValues] : D \in SUBSET EngineIds}

\* no function has been called on the graph since it changed
NoResult == [called |-> FALSE]

\* no policy is registered under the id
NoPolicy == [registered |-> FALSE]

\* _order = None (a sequence here, as the orders are)
NoOrder == <<None>>

\* the last call on the engine was not evaluate
NoReport == [called |-> FALSE]

\* ---------------------------------------------------------------------
\* domain/agent.py -- the data of an Agent

\* calls made on one agent, or on one policy, in a run
MaxLifecycleCalls == 4

AgentStatus == {"PENDING", "ACTIVE", "SUSPENDED", "DEACTIVATED", "EXPIRED"}

VALID_TRANSITIONS ==
    [status \in AgentStatus |->
        CASE status = "PENDING" -> {"ACTIVE", "DEACTIVATED"}
          [] status = "ACTIVE" -> {"SUSPENDED", "DEACTIVATED", "EXPIRED"}
          [] status = "SUSPENDED" -> {"ACTIVE", "DEACTIVATED"}
          [] status = "DEACTIVATED" -> {}
          [] status = "EXPIRED" -> {}]

\* activate, suspend, deactivate, mark_expired: the status each asks for
AgentCalls ==
    [activate |-> "ACTIVE", suspend |-> "SUSPENDED",
     deactivate |-> "DEACTIVATED", mark_expired |-> "EXPIRED"]

\* rules a policy is given in a run
PolicyRuleIds == {"r1", "r2"}

\* ------------------------------------------------------------ the chain

NoCall == [op |-> "none", start |-> 0, end |-> 0,
           result |-> ChainVerificationResult(TRUE, 0, None, None, None, None)]

NoTamper == [kind |-> "none", at |-> 0, len |-> 0]

Threads == {"t1", "t2"}

LockThreads == {"t1", "t2", "t3"}

NoLocals == [entry |-> None, seq |-> 0, previous |-> GENESIS_HASH,
             current |-> GENESIS_HASH, done |-> 0]

Init ==
    /\ entries = <<>>
    /\ head_hash = GENESIS_HASH
    /\ secret_key \in SecretKeys
    /\ tamper = NoTamper
    /\ ver = NoCall
    /\ a_pc = [t \in Threads |-> "idle"]
    /\ a_loc = [t \in Threads |-> NoLocals]
    /\ _readers = 0
    /\ _writers_waiting = 0
    /\ _writer_active = FALSE
    /\ cond_owner = None
    /\ cond_waiters = {}
    /\ rw_pc = [t \in LockThreads |-> "idle"]
    /\ _stripes = [i \in StripeIndexes |-> EmptyDict]
    /\ _locks = [i \in StripeIndexes |-> FreeLock]
    /\ sm_pc = [t \in Threads |-> "idle"]
    /\ sm_loc = [t \in Threads |-> NoMapCall]
    /\ sm_calls = 0
    /\ sm_model = EmptyDict
    /\ sm_hist = {}
    /\ _timestamps = <<>> /\ _agent_ids = <<>> /\ _domains = <<>>
    /\ _decisions = <<>> /\ _reasons = <<>> /\ _policy_ids = <<>>
    /\ _rule_ids = <<>> /\ _entry_ids = <<>> /\ _methods = <<>>
    /\ _paths = <<>> /\ _source_ips = <<>> /\ _latencies = <<>>
    /\ _count = 0
    /\ cs_result = NoStoreCall
    /\ cs_accepted = <<>>
    /\ _buffer = <<>>
    /\ _running = FALSE
    /\ _flush_thread = None
    /\ _flush_count = 0
    /\ al_pc = [t \in LogThreads |-> IF t = "main" THEN "idle" ELSE "dead"]
    /\ al_loc = [t \in LogThreads |-> NoFlush]
    /\ al_handed = <<>>
    /\ al_dropped = 0
    /\ al_phase = "open"
    /\ _server = None
    /\ _queue = <<>>
    /\ _putters = <<>>
    /\ _getters = <<>>
    /\ _requests_processed = 0
    /\ _queue_full_count = 0
    /\ ai_ready = <<>>
    /\ ai_running = None
    /\ ai_pc = [t \in Tasks |-> "none"]
    /\ ai_entry = [h \in Handlers |-> None]
    /\ ai_batch = <<>>
    /\ ai_clock = 1
    /\ ai_received = <<>>
    /\ ai_input = [h \in Handlers |-> None]
    /\ ai_enqueued = {}
    /\ ai_responded = {}
    /\ th_pc = [w \in Workers |-> "idle"]
    /\ th_loc = [w \in Workers |-> NoWork]
    /\ th_clock = 1
    /\ th_responded = {}
    /\ th_requests_processed = 0
    /\ ev_call = NoEval
    /\ ag_status = "PENDING"
    /\ ag_hist = <<>>
    /\ po_status = "DRAFT"
    /\ po_rules = <<>>
    /\ po_hist = <<>>
    /\ _policies = [p \in EngineIds |-> NoPolicy]
    /\ graph_nodes = <<>>
    /\ _fwd = [n \in EngineIds |-> <<>>]
    /\ _rev = [n \in EngineIds |-> <<>>]
    /\ _order = NoOrder
    /\ _built = FALSE
    /\ en_report = NoReport
    /\ en_calls = 0
    /\ _rev_keys = {}
    /\ g_calls = 0
    /\ g_result = NoResult
    /\ _patterns = <<>>
    /\ ac_output = [node \in SegmentPaths |-> <<>>]
    /\ dm_built = FALSE
    /\ dm_result = NoResult
    /\ _postings = [field \in IndexedFields |-> {}]
    /\ _entries = <<>>
    /\ se_result = NoResult

\* append that forgets to advance _head_hash
append_stale_head(entry) ==
    /\ Len(entries) < MaxLen
    /\ tamper = NoTamper
    /\ entries' = Append(entries,
                         ChainedEntry(entry, head_hash,
                                      AppendHash(secret_key, entry, head_hash),
                                      Len(entries)))
    /\ head_hash' = head_hash
    /\ ver' = NoCall
    /\ UNCHANGED <<secret_key, tamper, append_vars, rw_vars, ext_vars>>

\* AuditChain.append, run by a single caller from start to end.  Scenarios
\* build the chain first and tamper with it afterwards.
append(entry) ==
    /\ Len(entries) < MaxLen
    /\ tamper = NoTamper
    /\ LET seq == Len(entries)
           previous == head_hash
           current == AppendHash(secret_key, entry, previous)
           chained == ChainedEntry(entry, previous, current, seq)
       IN  /\ entries' = Append(entries, chained)
           /\ head_hash' = current
    /\ ver' = NoCall
    /\ UNCHANGED <<secret_key, tamper, append_vars, rw_vars, ext_vars>>

\* --------------------------------------------- tampering with _entries
\* What the tamper tests do to chain._entries: one stored ChainedEntry is
\* replaced, deleted or swapped with its neighbour; _head_hash and the key
\* are out of the attacker's reach.  A scenario holds one tampering.

Positions(chain) == 0 .. Len(chain) - 1

KnownHashes(chain) ==
    {GENESIS_HASH}
        \cup {chain[i].current_hash : i \in 1 .. Len(chain)}
        \cup {chain[i].previous_hash : i \in 1 .. Len(chain)}

Tamper(kind, at) == [kind |-> kind, at |-> at, len |-> Len(entries)]

\* _entries[k] is replaced by `chained`; the tampering is recorded as `kind`
Replace(kind, k, chained) ==
    /\ tamper = NoTamper
    /\ k \in Positions(entries)
    /\ chained # entries[k + 1]
    /\ entries' = [entries EXCEPT ![k + 1] = chained]
    /\ tamper' = Tamper(kind, k)
    /\ ver' = NoCall
    /\ UNCHANGED <<head_hash, secret_key, append_vars, rw_vars, ext_vars>>

\* replace(entry, field = v): one field of the stored entry, hashes untouched
TamperField(k, f, v) ==
    /\ k \in Positions(entries)
    /\ Replace("field", k, [entries[k + 1] EXCEPT !.entry[f] = v])

\* one field changed and current_hash recomputed without the key
TamperFieldRehash(k, f, v) ==
    /\ k \in Positions(entries)
    /\ v # entries[k + 1].entry[f]
    /\ LET e == [entries[k + 1].entry EXCEPT ![f] = v]
       IN  Replace("field_rehash", k,
                   [entries[k + 1] EXCEPT
                        !.entry = e,
                        !.current_hash = hash_entry(e, entries[k + 1].previous_hash)])

\* the stored previous_hash of position k is overwritten
TamperPreviousHash(k, h) ==
    /\ k \in Positions(entries)
    /\ Replace("previous_hash", k, [entries[k + 1] EXCEPT !.previous_hash = h])

\* the stored current_hash of position k is overwritten
TamperCurrentHash(k, h) ==
    /\ k \in Positions(entries)
    /\ Replace("current_hash", k, [entries[k + 1] EXCEPT !.current_hash = h])

\* previous_hash overwritten and current_hash recomputed over it, with the
\* chain's own hashing mode (an attacker holding the key) or without the key
Relink(k, h, key) ==
    /\ k \in Positions(entries)
    /\ h # entries[k + 1].previous_hash
    /\ Replace("relink", k,
               [entries[k + 1] EXCEPT
                    !.previous_hash = h,
                    !.current_hash = _compute_hash(key, entries[k + 1].entry, h)])

\* del chain._entries[i]: later entries move down one position
DeleteEntry(i) ==
    /\ tamper = NoTamper
    /\ i \in Positions(entries)
    /\ entries' = SubSeq(entries, 1, i) \o SubSeq(entries, i + 2, Len(entries))
    /\ tamper' = Tamper("delete", i)
    /\ ver' = NoCall
    /\ UNCHANGED <<head_hash, secret_key, append_vars, rw_vars, ext_vars>>

\* the stored entries at positions j and j+1 change places
SwapEntries(j) ==
    /\ tamper = NoTamper
    /\ j \in Positions(entries)
    /\ j + 1 \in Positions(entries)
    /\ entries' = [entries EXCEPT ![j + 1] = entries[j + 2],
                                  ![j + 2] = entries[j + 1]]
    /\ tamper' = Tamper("swap", j)
    /\ ver' = NoCall
    /\ UNCHANGED <<head_hash, secret_key, append_vars, rw_vars, ext_vars>>

\* ------------------------------------------------------ verifier calls
\* ver keeps the outcome of one call on the chain as it stands; a change of
\* the chain discards it.  The verifier has no state of its own, so a second
\* call on the same chain starts from the same place as the first.

VerifyFull ==
    /\ ver = NoCall
    /\ ver' = [op |-> "verify_full", start |-> 0, end |-> Len(entries),
               result |-> verify_full(entries, secret_key)]
    /\ UNCHANGED <<entries, head_hash, secret_key, tamper, append_vars, rw_vars, ext_vars>>

VerifyRange(start, end) ==
    /\ ver = NoCall
    /\ RangeOk(entries, start, end)
    /\ ver' = [op |-> "verify_range", start |-> start, end |-> end,
               result |-> verify_range(entries, secret_key, start, end)]
    /\ UNCHANGED <<entries, head_hash, secret_key, tamper, append_vars, rw_vars, ext_vars>>

\* a range outside the chain raises ValueError and verifies nothing
VerifyRangeError(start, end) ==
    /\ ver = NoCall
    /\ ~RangeOk(entries, start, end)
    /\ ver' = [NoCall EXCEPT !.op = "ValueError"]
    /\ UNCHANGED <<entries, head_hash, secret_key, tamper, append_vars, rw_vars, ext_vars>>

AllFields == {AuditFields[i] : i \in 1 .. Len(AuditFields)}

Next ==
    \/ \E entry \in EntryPool : append(entry)
    \/ \E k \in Positions(entries), f \in AllFields :
           \E v \in FieldValues(f) : TamperField(k, f, v)
    \/ \E k \in Positions(entries), f \in AllFields :
           \E v \in FieldValues(f) : TamperFieldRehash(k, f, v)
    \/ \E k \in Positions(entries) :
           \E h \in KnownHashes(entries) : TamperPreviousHash(k, h)
    \/ \E k \in Positions(entries) :
           \E h \in KnownHashes(entries) : TamperCurrentHash(k, h)
    \/ \E k \in Positions(entries), key \in {None, secret_key} :
           \E h \in KnownHashes(entries) : Relink(k, h, key)
    \/ \E i \in Positions(entries) : DeleteEntry(i)
    \/ \E j \in Positions(entries) : SwapEntries(j)
    \/ VerifyFull
    \/ \E start \in -1 .. MaxLen, end \in 0 .. MaxLen + 1 :
           \/ VerifyRange(start, end)
           \/ VerifyRangeError(start, end)

Spec == Init /\ [][Next]_vars

\* ------------------------------------- AuditChain.append, several callers
\* append takes no lock: a thread switch can fall between any two of its
\* statements.  Each step below is one statement of chain.py lines 103-119.

a_goto(t, pc) == a_pc' = [a_pc EXCEPT ![t] = pc]

\* a caller enters append(entry)
a_call(t, entry) ==
    /\ a_pc[t] = "idle"
    /\ a_loc[t].done < MaxAppends
    /\ a_loc' = [a_loc EXCEPT ![t].entry = entry]
    /\ a_goto(t, "seq")
    /\ UNCHANGED <<chain_vars, rw_vars, ext_vars>>

\* seq = len(self._entries)
a_seq(t) ==
    /\ a_pc[t] = "seq"
    /\ a_loc' = [a_loc EXCEPT ![t].seq = Len(entries)]
    /\ a_goto(t, "previous")
    /\ UNCHANGED <<chain_vars, rw_vars, ext_vars>>

\* previous = self._head_hash
a_previous(t) ==
    /\ a_pc[t] = "previous"
    /\ a_loc' = [a_loc EXCEPT ![t].previous = head_hash]
    /\ a_goto(t, "hash")
    /\ UNCHANGED <<chain_vars, rw_vars, ext_vars>>

\* current = hmac_entry(...) or hash_entry(...)
a_hash(t) ==
    /\ a_pc[t] = "hash"
    /\ a_loc' = [a_loc EXCEPT ![t].current =
                     AppendHash(secret_key, a_loc[t].entry, a_loc[t].previous)]
    /\ a_goto(t, "push")
    /\ UNCHANGED <<chain_vars, rw_vars, ext_vars>>

\* self._entries.append(ChainedEntry(...))
a_push(t) ==
    /\ a_pc[t] = "push"
    /\ entries' = Append(entries,
                         ChainedEntry(a_loc[t].entry, a_loc[t].previous,
                                      a_loc[t].current, a_loc[t].seq))
    /\ a_goto(t, "head")
    /\ UNCHANGED <<head_hash, secret_key, tamper, ver, a_loc, rw_vars, ext_vars>>

\* self._head_hash = current; return chained
a_head(t) ==
    /\ a_pc[t] = "head"
    /\ head_hash' = a_loc[t].current
    /\ a_loc' = [a_loc EXCEPT ![t].done = @ + 1]
    /\ a_goto(t, "idle")
    /\ UNCHANGED <<entries, secret_key, tamper, ver, rw_vars, ext_vars>>

NextAppend ==
    \E t \in Threads :
        \/ \E entry \in EntryPool : a_call(t, entry)
        \/ a_seq(t)
        \/ a_previous(t)
        \/ a_hash(t)
        \/ a_push(t)
        \/ a_head(t)

SpecAppend == Init /\ [][NextAppend]_vars

\* -------------------------------------------------- concurrency/rwlock.py
\* _cond is a threading.Condition over a plain Lock: `with self._cond` takes
\* the lock (cond_owner), wait() gives it up and blocks until a notify_all,
\* then takes it again before returning.

rw_goto(t, pc) == rw_pc' = [rw_pc EXCEPT ![t] = pc]

\* `with self._cond:` -- the lock is taken when it is free
cond_acquire(t, from, to) ==
    /\ rw_pc[t] = from
    /\ cond_owner = None
    /\ cond_owner' = t
    /\ rw_goto(t, to)
    /\ UNCHANGED <<_readers, _writers_waiting, _writer_active, cond_waiters>>

\* self._cond.wait(): release the lock and block
cond_wait(t, to) ==
    /\ cond_waiters' = cond_waiters \cup {t}
    /\ cond_owner' = None
    /\ rw_goto(t, to)

\* wait() returns: the thread was notified and has the lock again
cond_wakeup(t, from, to) ==
    /\ rw_pc[t] = from
    /\ t \notin cond_waiters
    /\ cond_owner = None
    /\ cond_owner' = t
    /\ rw_goto(t, to)
    /\ UNCHANGED <<_readers, _writers_waiting, _writer_active, cond_waiters>>

\* a reader's test that looks at the active writer only
ReaderMustWait_ignores_waiting == _writer_active

\* the reader's test: may a reader enter now?
ReaderMustWait == _writer_active \/ _writers_waiting > 0

\* a writer's test that looks at the active writer only
WriterMustWait_ignores_readers == _writer_active

\* the writer's test: may a writer enter now?
WriterMustWait == _writer_active \/ _readers > 0

\* a thread calls lock.read()
r_call(t) ==
    /\ rw_pc[t] = "idle"
    /\ rw_goto(t, "r_acquire")
    /\ UNCHANGED <<_readers, _writers_waiting, _writer_active, cond_owner,
                   cond_waiters, chain_vars, append_vars, ext_vars>>

r_acquire(t) ==
    /\ cond_acquire(t, "r_acquire", "r_test")
    /\ UNCHANGED <<chain_vars, append_vars, ext_vars>>

\* while self._writer_active or self._writers_waiting > 0: wait()
\* self._readers += 1
r_test(t) ==
    /\ rw_pc[t] = "r_test"
    /\ cond_owner = t
    /\ IF ReaderMustWait
       THEN /\ cond_wait(t, "r_wait")
            /\ UNCHANGED <<_readers>>
       ELSE /\ _readers' = _readers + 1
            /\ cond_owner' = None
            /\ rw_goto(t, "reading")
            /\ UNCHANGED <<cond_waiters>>
    /\ UNCHANGED <<_writers_waiting, _writer_active, chain_vars, append_vars, ext_vars>>

r_wakeup(t) ==
    /\ cond_wakeup(t, "r_wait", "r_test")
    /\ UNCHANGED <<chain_vars, append_vars, ext_vars>>

\* the body of the with-block ends (normally or by an exception)
r_leave(t) ==
    /\ rw_pc[t] = "reading"
    /\ rw_goto(t, "r_release")
    /\ UNCHANGED <<_readers, _writers_waiting, _writer_active, cond_owner,
                   cond_waiters, chain_vars, append_vars, ext_vars>>

r_release(t) ==
    /\ cond_acquire(t, "r_release", "r_exit")
    /\ UNCHANGED <<chain_vars, append_vars, ext_vars>>

\* self._readers -= 1; if self._readers == 0: notify_all()
r_exit(t) ==
    /\ rw_pc[t] = "r_exit"
    /\ cond_owner = t
    /\ _readers' = _readers - 1
    /\ cond_waiters' = IF _readers' = 0 THEN {} ELSE cond_waiters
    /\ cond_owner' = None
    /\ rw_goto(t, "idle")
    /\ UNCHANGED <<_writers_waiting, _writer_active, chain_vars, append_vars, ext_vars>>

\* a thread calls lock.write()
w_call(t) ==
    /\ rw_pc[t] = "idle"
    /\ rw_goto(t, "w_acquire")
    /\ UNCHANGED <<_readers, _writers_waiting, _writer_active, cond_owner,
                   cond_waiters, chain_vars, append_vars, ext_vars>>

w_acquire(t) ==
    /\ cond_acquire(t, "w_acquire", "w_register")
    /\ UNCHANGED <<chain_vars, append_vars, ext_vars>>

\* self._writers_waiting += 1
w_register(t) ==
    /\ rw_pc[t] = "w_register"
    /\ cond_owner = t
    /\ _writers_waiting' = _writers_waiting + 1
    /\ rw_goto(t, "w_test")
    /\ UNCHANGED <<_readers, _writer_active, cond_owner, cond_waiters,
                   chain_vars, append_vars, ext_vars>>

\* while self._writer_active or self._readers > 0: wait()
\* self._writers_waiting -= 1; self._writer_active = True
w_test(t) ==
    /\ rw_pc[t] = "w_test"
    /\ cond_owner = t
    /\ IF WriterMustWait
       THEN /\ cond_wait(t, "w_wait")
            /\ UNCHANGED <<_writers_waiting, _writer_active>>
       ELSE /\ _writers_waiting' = _writers_waiting - 1
            /\ _writer_active' = TRUE
            /\ cond_owner' = None
            /\ rw_goto(t, "writing")
            /\ UNCHANGED <<cond_waiters>>
    /\ UNCHANGED <<_readers, chain_vars, append_vars, ext_vars>>

w_wakeup(t) ==
    /\ cond_wakeup(t, "w_wait", "w_test")
    /\ UNCHANGED <<chain_vars, append_vars, ext_vars>>

\* the body of the with-block ends (normally or by an exception)
w_leave(t) ==
    /\ rw_pc[t] = "writing"
    /\ rw_goto(t, "w_release")
    /\ UNCHANGED <<_readers, _writers_waiting, _writer_active, cond_owner,
                   cond_waiters, chain_vars, append_vars, ext_vars>>

w_release(t) ==
    /\ cond_acquire(t, "w_release", "w_exit")
    /\ UNCHANGED <<chain_vars, append_vars, ext_vars>>

\* self._writer_active = False; notify_all()
w_exit(t) ==
    /\ rw_pc[t] = "w_exit"
    /\ cond_owner = t
    /\ _writer_active' = FALSE
    /\ cond_waiters' = {}
    /\ cond_owner' = None
    /\ rw_goto(t, "idle")
    /\ UNCHANGED <<_readers, _writers_waiting, chain_vars, append_vars, ext_vars>>

NextLock ==
    \E t \in LockThreads :
        \/ r_call(t)
        \/ r_acquire(t)
        \/ r_test(t)
        \/ r_wakeup(t)
        \/ r_leave(t)
        \/ r_release(t)
        \/ r_exit(t)
        \/ w_call(t)
        \/ w_acquire(t)
        \/ w_register(t)
        \/ w_test(t)
        \/ w_wakeup(t)
        \/ w_leave(t)
        \/ w_release(t)
        \/ w_exit(t)

SpecLock == Init /\ [][NextLock]_vars

\* a step of thread t inside read() or write(), once it has made the call
lock_step(t) ==
    \/ r_acquire(t) \/ r_test(t) \/ r_wakeup(t)
    \/ r_leave(t) \/ r_release(t) \/ r_exit(t)
    \/ w_acquire(t) \/ w_register(t) \/ w_test(t) \/ w_wakeup(t)
    \/ w_leave(t) \/ w_release(t) \/ w_exit(t)

\* Fair scheduling of the lock's users: a thread that can run again and again
\* does run.  So a thread that holds the condition's lock gives it up, a
\* thread inside a read or write section leaves it, and a thread that finds
\* the condition's lock free again and again gets it in the end.  Nothing
\* obliges a thread to call read() or write().
LockFairness == \A t \in LockThreads : SF_vars(lock_step(t))

SpecLockFair == Init /\ [][NextLock]_vars /\ LockFairness

\* ---------------------------------------------------------------------
\* concurrency/striped_map.py -- StripedMap under concurrent callers.
\* A call on key k works on stripe _stripe_index(k) only.  Each stripe's
\* ReadWriteLock is taken in one step, when it can be had: a write section
\* when no thread is inside a section of that lock, a read section when no
\* thread is inside a write section of it.  Between the steps of one call
\* any other thread may run.

sm_frame == <<core_vars, store_vars, log_vars, icpt_vars, th_vars, dom_vars>>

\* lock.write() can be entered
write_may_enter_always(lock) == TRUE

write_may_enter(lock) == ~lock._writer_active /\ lock._readers = 0

\* lock.read() can be entered
read_may_enter(lock) == ~lock._writer_active

sm_goto(t, pc) == sm_pc' = [sm_pc EXCEPT ![t] = pc]

\* a thread starts a call: idx = self._stripe_index(key)
sm_start(t, pc, locals) ==
    /\ sm_pc[t] = "idle"
    /\ sm_calls < MaxCalls
    /\ sm_calls' = sm_calls + 1
    /\ sm_goto(t, pc)
    /\ sm_loc' = [sm_loc EXCEPT ![t] = locals]
    /\ UNCHANGED <<_stripes, _locks, sm_model, sm_frame>>

\* with self._locks[idx].write():
sm_write_lock(t, from, to) ==
    /\ sm_pc[t] = from
    /\ LET idx == _stripe_index(sm_loc[t].key) IN
       /\ write_may_enter(_locks[idx])
       /\ _locks' = [_locks EXCEPT ![idx]._writer_active = TRUE]
    /\ sm_goto(t, to)
    /\ UNCHANGED <<_stripes, sm_loc, sm_calls, sm_model, sm_hist>>

\* the write section ends: the lock is given back
write_release(idx) == [_locks EXCEPT ![idx]._writer_active = FALSE]

\* map.get(key)
get_call(t, key) ==
    /\ sm_start(t, "get_lock", [call |-> "get", key |-> key])
    /\ UNCHANGED sm_hist

\* with self._locks[idx].read():
get_lock(t) ==
    /\ sm_pc[t] = "get_lock"
    /\ LET idx == _stripe_index(sm_loc[t].key) IN
       /\ read_may_enter(_locks[idx])
       /\ _locks' = [_locks EXCEPT ![idx]._readers = @ + 1]
    /\ sm_goto(t, "get_read")
    /\ UNCHANGED <<_stripes, sm_loc, sm_calls, sm_model, sm_hist, sm_frame>>

\* return self._stripes[idx].get(key)
get_read(t) ==
    /\ sm_pc[t] = "get_read"
    /\ LET key == sm_loc[t].key
           idx == _stripe_index(key) IN
       /\ sm_loc' = [sm_loc EXCEPT ![t] =
              [call |-> "get", key |-> key,
               result |-> dict_get(_stripes[idx], key, None)]]
       /\ _locks' = [_locks EXCEPT ![idx]._readers = @ - 1]
    /\ sm_goto(t, "idle")
    /\ UNCHANGED <<_stripes, sm_calls, sm_model, sm_hist, sm_frame>>

\* map.put(key, value)
put_call(t, key, value) ==
    /\ sm_start(t, "put_lock", [call |-> "put", key |-> key, value |-> value])
    /\ UNCHANGED sm_hist

put_lock(t) ==
    /\ sm_write_lock(t, "put_lock", "put_store")
    /\ UNCHANGED sm_frame

\* self._stripes[idx][key] = value
put_store(t) ==
    /\ sm_pc[t] = "put_store"
    /\ LET key == sm_loc[t].key
           idx == _stripe_index(key) IN
       /\ _stripes' = [_stripes EXCEPT
                          ![idx] = dict_set(@, key, sm_loc[t].value)]
       /\ sm_model' = dict_set(sm_model, key, sm_loc[t].value)
       /\ _locks' = write_release(idx)
    /\ sm_goto(t, "idle")
    /\ UNCHANGED <<sm_loc, sm_calls, sm_hist, sm_frame>>

\* map.delete(key)
delete_call(t, key) ==
    /\ sm_start(t, "delete_lock", [call |-> "delete", key |-> key])
    /\ UNCHANGED sm_hist

delete_lock(t) ==
    /\ sm_write_lock(t, "delete_lock", "delete_del")
    /\ UNCHANGED sm_frame

\* a ConcurrentPolicyCache call has returned
hist_done(h, call) ==
    IF call \in {"assign", "remove"}
    THEN sm_hist \cup {h}
    ELSE sm_hist

\* if key in self._stripes[idx]: del self._stripes[idx][key]
delete_del(t) ==
    /\ sm_pc[t] = "delete_del"
    /\ LET key == sm_loc[t].key
           idx == _stripe_index(key) IN
       /\ _stripes' = [_stripes EXCEPT ![idx] = dict_del(@, key)]
       /\ sm_model' = dict_del(sm_model, key)
       /\ _locks' = write_release(idx)
    /\ sm_hist' = IF sm_loc[t].call = "remove"
                  THEN hist_done(sm_loc[t].h, "remove")
                  ELSE sm_hist
    /\ sm_goto(t, "idle")
    /\ UNCHANGED <<sm_loc, sm_calls, sm_frame>>

\* the functions handed to update
inc(current) == current + 1

\* ConcurrentPolicyCache.assign_policy_to_agent._add, without its test
_add_blind(current, policy_id) == Append(current, policy_id)

\* ConcurrentPolicyCache.assign_policy_to_agent._add
_add(current, policy_id) ==
    IF \A i \in 1 .. Len(current) : current[i] # policy_id
    THEN Append(current, policy_id)
    ELSE current

\* ConcurrentPolicyCache.remove_policy_from_agent._remove
_remove(current, policy_id) ==
    IF \E i \in 1 .. Len(current) : current[i] = policy_id
    THEN SelectSeq(current, LAMBDA pid : pid # policy_id)
    ELSE current

\* func(current), for the functions in use
func(f, current) ==
    CASE f[1] = "inc" -> inc(current)
      [] f[1] = "_add" -> _add(current, f[2])
      [] f[1] = "_remove" -> _remove(current, f[2])

\* map.update(key, lambda v: v + 1, default=0)
update_call(t, key) ==
    /\ sm_start(t, "update_lock",
                [call |-> "update", key |-> key, func |-> <<"inc">>,
                 default |-> 0, h |-> None])
    /\ UNCHANGED sm_hist

update_lock(t) ==
    /\ sm_write_lock(t, "update_lock", "update_read")
    /\ UNCHANGED sm_frame

\* current = self._stripes[idx].get(key, default)
update_read(t) ==
    /\ sm_pc[t] = "update_read"
    /\ LET key == sm_loc[t].key
           idx == _stripe_index(key) IN
       sm_loc' = [sm_loc EXCEPT ![t] =
           [call |-> sm_loc[t].call, key |-> key, func |-> sm_loc[t].func,
            default |-> sm_loc[t].default, h |-> sm_loc[t].h,
            current |-> dict_get(_stripes[idx], key, sm_loc[t].default)]]
    /\ sm_goto(t, "update_store")
    /\ UNCHANGED <<_stripes, _locks, sm_calls, sm_model, sm_hist, sm_frame>>

\* new_val = func(current); self._stripes[idx][key] = new_val;
\* return new_val.  remove_policy_from_agent goes on to
\* `if not result_list: self._agent_policies.delete(agent_id)`.
update_store(t) ==
    /\ sm_pc[t] = "update_store"
    /\ LET key == sm_loc[t].key
           idx == _stripe_index(key)
           new_val == func(sm_loc[t].func, sm_loc[t].current)
           again == sm_loc[t].call = "remove" /\ new_val = <<>> IN
       /\ _stripes' = [_stripes EXCEPT ![idx] = dict_set(@, key, new_val)]
       /\ sm_model' = dict_set(sm_model, key,
              func(sm_loc[t].func,
                   dict_get(sm_model, key, sm_loc[t].default)))
       /\ _locks' = write_release(idx)
       /\ sm_goto(t, IF again THEN "delete_lock" ELSE "idle")
       /\ sm_hist' = IF again THEN sm_hist
                     ELSE hist_done(sm_loc[t].h, sm_loc[t].call)
    /\ UNCHANGED <<sm_loc, sm_calls, sm_frame>>

\* the values put by callers
PutValues == {0, 1}

NextMap ==
    \E t \in Threads :
        \/ \E key \in Keys : get_call(t, key)
        \/ get_lock(t)
        \/ get_read(t)
        \/ \E key \in Keys, value \in PutValues : put_call(t, key, value)
        \/ put_lock(t)
        \/ put_store(t)
        \/ \E key \in Keys : delete_call(t, key)
        \/ delete_lock(t)
        \/ delete_del(t)
        \/ \E key \in Keys : update_call(t, key)
        \/ update_lock(t)
        \/ update_read(t)
        \/ update_store(t)

SpecMap == Init /\ [][NextMap]_vars

\* ---------------------------------------------------------------------
\* concurrency/concurrent_policy_cache.py -- the agent's assignment lists
\* of a ConcurrentPolicyCache, kept in the StripedMap _agent_policies.
\* The agents are the keys of the map.

PolicyIds == {"p1", "p2"}

\* the agents in use are the keys 0 .. MaxAgent
MaxAgent == 1
AgentIds == 0 .. MaxAgent

\* cache.assign_policy_to_agent(agent_id, policy_id)
assign_call(t, agent_id, policy_id) ==
    /\ sm_start(t, "update_lock",
                [call |-> "assign", key |-> agent_id,
                 func |-> <<"_add", policy_id>>, default |-> <<>>,
                 h |-> [op |-> "assign", agent_id |-> agent_id,
                        policy_id |-> policy_id]])
    /\ UNCHANGED sm_hist

\* cache.remove_policy_from_agent(agent_id, policy_id)
remove_call(t, agent_id, policy_id) ==
    /\ sm_start(t, "update_lock",
                [call |-> "remove", key |-> agent_id,
                 func |-> <<"_remove", policy_id>>, default |-> <<>>,
                 h |-> [op |-> "remove", agent_id |-> agent_id,
                        policy_id |-> policy_id]])
    /\ UNCHANGED sm_hist

NextCache ==
    \E t \in Threads :
        \/ \E a \in AgentIds, p \in PolicyIds : assign_call(t, a, p)
        \/ \E a \in AgentIds, p \in PolicyIds : remove_call(t, a, p)
        \/ update_lock(t)
        \/ update_read(t)
        \/ update_store(t)
        \/ delete_lock(t)
        \/ delete_del(t)

SpecCache == Init /\ [][NextCache]_vars

\* ---------------------------------------------------------------------
\* store/columnar_store.py -- ColumnarAuditStore used by one caller

cs_frame == <<core_vars, map_vars, log_vars, icpt_vars, th_vars, dom_vars>>

\* the test of append that never finds an entry out of order
out_of_order_never(count, timestamps, ts) == FALSE

\* if self._count > 0 and ts < self._timestamps[-1]
out_of_order(count, timestamps, ts) ==
    count > 0 /\ ts < timestamps[Len(timestamps)]

\* the timestamps column when the test is made after line 91
timestamps_on_raise_late(timestamps, ts) == Append(timestamps, ts)

\* the timestamps column when append raises: the test precedes line 91
timestamps_on_raise(timestamps, ts) == timestamps

\* line 91: self._timestamps.append(ts)
append_timestamp(entry) == _timestamps' = Append(_timestamps, entry.timestamp)

\* lines 92-108: one value more in each of the other eleven columns
append_fields(entry) ==
    /\ _agent_ids' = Append(_agent_ids, uuid_bytes(entry.agent_id))
    /\ _domains' = Append(_domains, entry.domain)
    /\ _decisions' = Append(_decisions, decision_value(entry.decision))
    /\ _reasons' = Append(_reasons, entry.reason)
    /\ _policy_ids' = Append(_policy_ids,
           IF entry.policy_id # None THEN uuid_bytes(entry.policy_id)
           ELSE <<None>>)
    /\ _rule_ids' = Append(_rule_ids,
           IF entry.rule_id # None THEN uuid_bytes(entry.rule_id)
           ELSE <<None>>)
    /\ _entry_ids' = Append(_entry_ids, uuid_bytes(entry.entry_id))
    /\ _methods' = Append(_methods, encode_method(entry.request_method))
    /\ _paths' = Append(_paths, entry.request_path)
    /\ _source_ips' = Append(_source_ips, entry.source_ip)
    /\ _latencies' = Append(_latencies, float32(entry.processing_time_ms))

\* lines 91-109: one value more in every column, one row more counted
append_row(entry) ==
    /\ append_timestamp(entry)
    /\ append_fields(entry)
    /\ _count' = _count + 1

\* store.append(entry)
cs_append(entry) ==
    /\ Len(_timestamps) < MaxRows
    /\ IF out_of_order(_count, _timestamps, entry.timestamp)
       THEN /\ cs_result' = [op |-> "append", entry |-> entry,
                             raised |-> "ValueError"]
            /\ _timestamps' = timestamps_on_raise(_timestamps, entry.timestamp)
            /\ UNCHANGED <<_agent_ids, _domains, _decisions, _reasons,
                           _policy_ids, _rule_ids, _entry_ids, _methods,
                           _paths, _source_ips, _latencies, _count,
                           cs_accepted>>
       ELSE /\ append_row(entry)
            /\ cs_result' = [op |-> "append", entry |-> entry, raised |-> None]
            /\ cs_accepted' = Append(cs_accepted, entry)
    /\ UNCHANGED cs_frame

\* bisect.bisect_left(a, x, lo, hi), lo and hi counted from 0
RECURSIVE bisect_left_from(_, _, _, _)
bisect_left_from(a, x, lo, hi) ==
    IF lo < hi
    THEN LET mid == (lo + hi) \div 2 IN
         IF a[mid + 1] < x
         THEN bisect_left_from(a, x, mid + 1, hi)
         ELSE bisect_left_from(a, x, lo, mid)
    ELSE lo

bisect_left(a, x) == bisect_left_from(a, x, 0, Len(a))

\* a right end that stops before the rows equal to x
bisect_right_before(a, x) == bisect_left(a, x)

\* bisect.bisect_right(a, x, lo, hi), lo and hi counted from 0
RECURSIVE bisect_right_from(_, _, _, _)
bisect_right_from(a, x, lo, hi) ==
    IF lo < hi
    THEN LET mid == (lo + hi) \div 2 IN
         IF x < a[mid + 1]
         THEN bisect_right_from(a, x, lo, mid)
         ELSE bisect_right_from(a, x, mid + 1, hi)
    ELSE lo

bisect_right(a, x) == bisect_right_from(a, x, 0, Len(a))

\* self._reconstruct_entry(idx), idx counted from 0
_reconstruct_entry(idx) ==
    LET pid_bytes == _policy_ids[idx + 1]
        rid_bytes == _rule_ids[idx + 1] IN
    [entry_id |-> uuid_from_bytes(_entry_ids[idx + 1]),
     agent_id |-> uuid_from_bytes(_agent_ids[idx + 1]),
     domain |-> _domains[idx + 1],
     decision |-> decision_of_value(_decisions[idx + 1]),
     timestamp |-> _timestamps[idx + 1],
     reason |-> _reasons[idx + 1],
     policy_id |-> IF pid_bytes # <<None>> THEN uuid_from_bytes(pid_bytes)
                   ELSE None,
     rule_id |-> IF rid_bytes # <<None>> THEN uuid_from_bytes(rid_bytes)
                 ELSE None,
     request_method |-> decode_method(_methods[idx + 1]),
     request_path |-> _paths[idx + 1],
     source_ip |-> _source_ips[idx + 1],
     processing_time_ms |-> _latencies[idx + 1]]

\* store.query_time_range(start, end)
query_time_range(start, end) ==
    LET left == bisect_left(_timestamps, start)
        right == bisect_right(_timestamps, end) IN
    [k \in 1 .. (IF right > left THEN right - left ELSE 0) |->
        _reconstruct_entry(left + k - 1)]

cs_query_time_range(start, end) ==
    /\ cs_result' = [op |-> "query_time_range", start |-> start, end |-> end,
                     value |-> query_time_range(start, end)]
    /\ UNCHANGED <<columns, _count, cs_accepted, cs_frame>>

NextStore ==
    \/ \E entry \in StoreEntries : cs_append(entry)
    \/ \E start, end \in 0 .. MaxTime + 1 : cs_query_time_range(start, end)

SpecStore == Init /\ [][NextStore]_vars

\* ---------------------------------------------------------------------
\* concurrency/concurrent_audit_log.py -- ConcurrentAuditLog: producers
\* call append(), one thread calls start() and stop(), the flush thread runs
\* _flush_loop.  A thread may be preempted between any two steps.

al_frame == <<core_vars, map_vars, icpt_vars, th_vars, dom_vars>>
al_goto(t, pc) == al_pc' = [al_pc EXCEPT ![t] = pc]
al_store == <<columns, _count, cs_result, cs_accepted>>

\* log.append(entry), by any producer: self._buffer.append(entry)
al_append(entry) ==
    /\ Len(al_handed) < MaxHanded
    /\ _buffer' = Append(_buffer, entry)
    /\ al_handed' = Append(al_handed, entry)
    /\ al_phase' = IF al_phase = "open" THEN "open" ELSE "late"
    /\ UNCHANGED <<_running, _flush_thread, _flush_count, al_pc, al_loc,
                   al_dropped, al_store, al_frame>>

\* log.start(): if self._running: return; self._running = True; the flush
\* thread is created and started (one flush thread at a time in this model:
\* start() is not called while a thread that outlived stop() is still alive)
al_start ==
    /\ al_pc["main"] = "idle"
    /\ _running \/ al_pc["flush"] = "dead"
    /\ IF _running
       THEN UNCHANGED <<_running, _flush_thread, al_pc, al_phase>>
       ELSE /\ _running' = TRUE
            /\ _flush_thread' = "flush"
            /\ al_pc' = [al_pc EXCEPT !["flush"] = "loop_test"]
            /\ al_phase' = "open"
    /\ UNCHANGED <<_buffer, _flush_count, al_loc, al_handed, al_dropped,
                   al_store, al_frame>>

\* _flush_loop: while self._running
fl_loop_test ==
    /\ al_pc["flush"] = "loop_test"
    /\ al_goto("flush", IF _running THEN "sleep" ELSE "dead")
    /\ UNCHANGED <<_buffer, _running, _flush_thread, _flush_count, al_loc,
                   al_handed, al_dropped, al_phase, al_store, al_frame>>

\* time.sleep(self._flush_interval) is over; self._flush_buffer() is called
fl_sleep ==
    /\ al_pc["flush"] = "sleep"
    /\ al_goto("flush", "fb_test")
    /\ al_loc' = [al_loc EXCEPT !["flush"] = NoFlush]
    /\ UNCHANGED <<_buffer, _running, _flush_thread, _flush_count, al_handed,
                   al_dropped, al_phase, al_store, al_frame>>

\* log.stop(timeout): self._running = False
al_stop ==
    /\ al_pc["main"] = "idle"
    /\ _running' = FALSE
    /\ al_goto("main", "stop_join")
    /\ al_phase' = "stopping"
    /\ UNCHANGED <<_buffer, _flush_thread, _flush_count, al_loc, al_handed,
                   al_dropped, al_store, al_frame>>

\* if self._flush_thread is not None: join(timeout=timeout), which returns
\* when the thread has ended or when the timeout is over;
\* self._flush_thread = None.  Then self._flush_buffer() is called.
join_returns(timed_out) == timed_out \/ al_pc["flush"] = "dead"

al_stop_join ==
    /\ al_pc["main"] = "stop_join"
    /\ _flush_thread # None => \E timed_out \in BOOLEAN : join_returns(timed_out)
    /\ _flush_thread' = None
    /\ al_goto("main", "fb_test")
    /\ al_loc' = [al_loc EXCEPT !["main"] = NoFlush]
    /\ UNCHANGED <<_buffer, _running, _flush_count, al_handed, al_dropped,
                   al_phase, al_store, al_frame>>

\* a drain that looks at the oldest entry and leaves it in the deque
deque_after_peek(buffer) == buffer

\* the deque after popleft()
deque_after_popleft(buffer) == Tail(buffer)

\* _flush_buffer: while self._buffer
fb_test(t) ==
    /\ al_pc[t] = "fb_test"
    /\ al_goto(t, IF _buffer # <<>> THEN "fb_pop" ELSE "fb_end")
    /\ UNCHANGED <<_buffer, _running, _flush_thread, _flush_count, al_loc,
                   al_handed, al_dropped, al_phase, al_store, al_frame>>

\* entry = self._buffer.popleft(); an empty deque raises IndexError: break
fb_pop(t) ==
    /\ al_pc[t] = "fb_pop"
    /\ IF _buffer # <<>>
       THEN /\ al_loc' = [al_loc EXCEPT ![t].entry = Head(_buffer)]
            /\ _buffer' = deque_after_popleft(_buffer)
            /\ al_goto(t, "fb_store")
       ELSE /\ al_goto(t, "fb_end")
            /\ UNCHANGED <<_buffer, al_loc>>
    /\ UNCHANGED <<_running, _flush_thread, _flush_count, al_handed,
                   al_dropped, al_phase, al_store, al_frame>>

\* self._store.append(entry) is entered.  Its statements are steps of their
\* own, since another drain may run between them.
\* if self._count > 0 and ts < self._timestamps[-1]: raise ValueError, which
\* _flush_buffer catches: the entry is dropped
fb_store(t) ==
    /\ al_pc[t] = "fb_store"
    /\ IF out_of_order(_count, _timestamps, al_loc[t].entry.timestamp)
       THEN /\ al_dropped' = al_dropped + 1
            /\ al_loc' = [al_loc EXCEPT ![t].entry = None]
            /\ al_goto(t, "fb_test")
       ELSE /\ al_goto(t, "st_timestamp")
            /\ UNCHANGED <<al_dropped, al_loc>>
    /\ UNCHANGED <<_buffer, _running, _flush_thread, _flush_count, al_handed,
                   al_phase, al_store, al_frame>>

\* line 91
st_timestamp(t) ==
    /\ al_pc[t] = "st_timestamp"
    /\ append_timestamp(al_loc[t].entry)
    /\ al_goto(t, "st_fields")
    /\ UNCHANGED <<_agent_ids, _domains, _decisions, _reasons, _policy_ids,
                   _rule_ids, _entry_ids, _methods, _paths, _source_ips,
                   _latencies, _count, cs_result, cs_accepted>>
    /\ UNCHANGED <<_buffer, _running, _flush_thread, _flush_count, al_loc,
                   al_handed, al_dropped, al_phase, al_frame>>

\* lines 92-108, and the read of self._count in `self._count += 1`
st_fields(t) ==
    /\ al_pc[t] = "st_fields"
    /\ append_fields(al_loc[t].entry)
    /\ al_loc' = [al_loc EXCEPT ![t] =
           [entry |-> al_loc[t].entry, flushed |-> al_loc[t].flushed,
            count |-> _count]]
    /\ al_goto(t, "st_count")
    /\ UNCHANGED <<_timestamps, _count, cs_result, cs_accepted>>
    /\ UNCHANGED <<_buffer, _running, _flush_thread, _flush_count,
                   al_handed, al_dropped, al_phase, al_frame>>

\* line 109: the write of self._count; append returns; flushed += 1
st_count(t) ==
    /\ al_pc[t] = "st_count"
    /\ _count' = al_loc[t].count + 1
    /\ cs_accepted' = Append(cs_accepted, al_loc[t].entry)
    /\ al_loc' = [al_loc EXCEPT ![t] =
           [entry |-> None, flushed |-> al_loc[t].flushed + 1]]
    /\ al_goto(t, "fb_test")
    /\ UNCHANGED <<columns, cs_result>>
    /\ UNCHANGED <<_buffer, _running, _flush_thread, _flush_count,
                   al_handed, al_dropped, al_phase, al_frame>>

\* if flushed > 0: with self._lock: self._flush_count += flushed.
\* _flush_buffer returns: to _flush_loop, or to stop(), which returns.
fb_end(t) ==
    /\ al_pc[t] = "fb_end"
    /\ _flush_count' = _flush_count + al_loc[t].flushed
    /\ al_loc' = [al_loc EXCEPT ![t] = NoFlush]
    /\ al_goto(t, IF t = "flush" THEN "loop_test" ELSE "idle")
    /\ al_phase' = IF t = "main" /\ al_phase = "stopping" THEN "stopped"
                   ELSE al_phase
    /\ UNCHANGED <<_buffer, _running, _flush_thread, al_handed, al_dropped,
                   al_store, al_frame>>

NextLog ==
    \/ \E entry \in LogEntries : al_append(entry)
    \/ al_start
    \/ fl_loop_test
    \/ fl_sleep
    \/ al_stop
    \/ al_stop_join
    \/ \E t \in LogThreads :
           \/ fb_test(t)
           \/ fb_pop(t)
           \/ fb_store(t)
           \/ st_timestamp(t)
           \/ st_fields(t)
           \/ st_count(t)
           \/ fb_end(t)

SpecLog == Init /\ [][NextLog]_vars

\* ---------------------------------------------------------------------
\* interceptor/async_interceptor.py -- AsyncInterceptor on one event loop.
\* A task runs without interruption from one await that suspends it to the
\* next; the loop resumes the tasks of its ready queue in order.  Network
\* events (a connection, a request, a connection closed) and the caller of
\* stop() arrive at any time.

ai_frame == <<core_vars, map_vars, log_vars, th_vars, dom_vars>>
ai_goto(t, pc) == ai_pc' = [ai_pc EXCEPT ![t] = pc]

\* the loop resumes t: nothing is running and t is first in the ready queue
ai_resumes(t) ==
    /\ ai_running = None
    /\ ai_ready # <<>>
    /\ Head(ai_ready) = t

\* the ready queue behind the task that is running now
ai_others == IF ai_running = None THEN Tail(ai_ready) ELSE ai_ready

\* asyncio.Queue._wakeup_next(waiters): the first waiter, if any, is resumed
woken(waiters) == IF waiters = <<>> THEN <<>> ELSE <<Head(waiters)>>
still_waiting(waiters) == IF waiters = <<>> THEN <<>> ELSE Tail(waiters)

\* a queue that is never full
full_never(queue) == FALSE

\* asyncio.Queue.full(): a maxsize of 0 or less means no limit
full(queue) ==
    IF queue_maxsize <= 0 THEN FALSE ELSE Len(queue) >= queue_maxsize

\* self._store.append(entry) as _flush_batch and _drain_remaining call it:
\* a ValueError (out-of-order timestamp) is caught and the entry is dropped
store_or_drop(entry) ==
    IF out_of_order(_count, _timestamps, entry.timestamp)
    THEN /\ cs_result' = [op |-> "append", entry |-> entry,
                          raised |-> "ValueError"]
         /\ UNCHANGED <<columns, _count, cs_accepted>>
    ELSE /\ append_row(entry)
         /\ cs_result' = [op |-> "append", entry |-> entry, raised |-> None]
         /\ cs_accepted' = Append(cs_accepted, entry)

\* await interceptor.start(): the server listens and _flush_loop is created
ai_start ==
    /\ _server = None
    /\ ai_pc["flush"] = "none"
    /\ _server' = "listening"
    /\ ai_goto("flush", "get")
    /\ ai_ready' = Append(ai_ready, "flush")
    /\ UNCHANGED <<_queue, _putters, _getters, _requests_processed,
                   _queue_full_count, ai_running, ai_entry, ai_batch, ai_clock,
                   ai_received, store_vars, ai_frame,
                   ai_input, ai_enqueued, ai_responded>>

\* a client connects: _handle_connection(reader, writer) starts and waits
\* in async_read_message
ai_accept(h) ==
    /\ _server = "listening"
    /\ ai_pc[h] = "none"
    /\ ai_goto(h, "read")
    /\ UNCHANGED <<_server, _queue, _putters, _getters, _requests_processed,
                   _queue_full_count, ai_ready, ai_running, ai_entry, ai_batch,
                   ai_clock, ai_received, store_vars, ai_frame,
                   ai_input, ai_enqueued, ai_responded>>

\* the client's bytes arrive, or its connection ends: async_read_message
\* returns a message that from_bytes parses ("request") or that makes it
\* raise ("malformed"), or async_read_message raises IncompleteReadError
\* ("incomplete"), ConnectionError ("reset") or ValueError for a length
\* above MAX_MESSAGE_SIZE ("oversized")
ai_request(h, input) ==
    /\ ai_pc[h] = "read"
    /\ ai_goto(h, IF input \in Requests THEN "parse" ELSE "bad")
    /\ ai_input' = [ai_input EXCEPT ![h] = input]
    /\ ai_ready' = Append(ai_ready, h)
    /\ UNCHANGED <<_server, _queue, _putters, _getters, _requests_processed,
                   _queue_full_count, ai_running, ai_entry, ai_batch, ai_clock,
                   ai_received, store_vars, ai_frame,
                   ai_enqueued, ai_responded>>

\* await self._queue.put(item) by task t, entered or resumed:
\* while self.full(): wait as a putter; then put_nowait(item), which wakes
\* the getter.  next is where t goes once the item is in the queue.
queue_put(t, item, next) ==
    IF full(_queue)
    THEN /\ _putters' = Append(_putters, t)
         /\ ai_goto(t, "put_wait")
         /\ ai_ready' = ai_others
         /\ UNCHANGED <<_queue, _getters, ai_enqueued>>
    ELSE /\ _queue' = Append(_queue, item)
         /\ ai_enqueued' = ai_enqueued \cup {t}
         /\ _getters' = still_waiting(_getters)
         /\ ai_ready' = ai_others \o woken(_getters)
         /\ ai_goto(t, next)
         /\ UNCHANGED _putters

\* step 8 written ahead of step 7: the response goes out before the put
responded_before_put(h, suspended) == ai_responded \cup {h}

\* 8: respond -- async_write_message(writer, resp_bytes) comes after
\* await self._queue.put(entry) has returned, not while the handler is
\* suspended in it
responded_after_put(h, suspended) ==
    IF suspended THEN ai_responded ELSE ai_responded \cup {h}

\* _handle_connection from the parsed request to the first await that
\* suspends it: evaluate, AuditEntry.create (timestamp time.time()),
\* if self._queue.full(): self._queue_full_count += 1, await queue.put(entry)
\* and, once the entry is queued, the response and writer.wait_closed()
h_handle(h) ==
    /\ ai_resumes(h)
    /\ ai_pc[h] = "parse"
    /\ IF uuid_parses(ai_input[h])
       THEN LET entry == created_entry(h, ai_input[h], ai_clock) IN
            /\ ai_entry' = [ai_entry EXCEPT ![h] = entry]
            /\ ai_received' = Append(ai_received, entry)
            /\ queue_put(h, entry, "closing")
            /\ ai_clock' = ai_clock + 1
            /\ _queue_full_count' =
                   _queue_full_count + (IF full(_queue) THEN 1 ELSE 0)
            /\ ai_responded' = responded_after_put(h, full(_queue))
       ELSE \* except Exception: no entry and no response; finally
            /\ ai_goto(h, "closing")
            /\ ai_ready' = Tail(ai_ready)
            /\ UNCHANGED <<_queue, _putters, _getters, _queue_full_count,
                           ai_entry, ai_clock, ai_received, ai_enqueued,
                           ai_responded>>
    /\ UNCHANGED <<_server, _requests_processed, ai_running, ai_batch,
                   store_vars, ai_frame, ai_input>>

\* a handler that waited in queue.put is resumed
h_put_resume(h) ==
    /\ ai_resumes(h)
    /\ ai_pc[h] = "put_wait"
    /\ queue_put(h, ai_entry[h], "closing")
    /\ ai_responded' = responded_after_put(h, full(_queue))
    /\ UNCHANGED <<_server, _requests_processed, _queue_full_count, ai_running,
                   ai_entry, ai_batch, ai_clock, ai_received, store_vars,
                   ai_frame,
                   ai_input>>

\* except (IncompleteReadError, ConnectionError) / except Exception: no
\* entry; finally: writer.close(); await writer.wait_closed()
h_bad(h) ==
    /\ ai_resumes(h)
    /\ ai_pc[h] = "bad"
    /\ ai_goto(h, "closing")
    /\ ai_ready' = Tail(ai_ready)
    /\ UNCHANGED <<_server, _queue, _putters, _getters, _requests_processed,
                   _queue_full_count, ai_running, ai_entry, ai_batch, ai_clock,
                   ai_received, store_vars, ai_frame,
                   ai_input, ai_enqueued, ai_responded>>

\* a handler's connection is still counted by the server
ai_active(h) == ai_pc[h] \in {"read", "parse", "bad", "put_wait", "closing"}

\* the connection of h is closed: writer.wait_closed() can return, and a
\* stop() that waits in server.wait_closed() for the last connection is
\* resumed
ai_conn_lost(h) ==
    /\ ai_pc[h] = "closing"
    /\ LET last == ai_pc["stop"] = "wait_closed"
                   /\ \A g \in Handlers \ {h} : ~ai_active(g)
       IN /\ ai_pc' = [ai_pc EXCEPT ![h] = "finally",
                          !["stop"] = IF last THEN "put" ELSE @]
          /\ ai_ready' = Append(ai_ready, h) \o
                         (IF last THEN <<"stop">> ELSE <<>>)
    /\ UNCHANGED <<_server, _queue, _putters, _getters, _requests_processed,
                   _queue_full_count, ai_running, ai_entry, ai_batch, ai_clock,
                   ai_received, store_vars, ai_frame,
                   ai_input, ai_enqueued, ai_responded>>

\* finally: self._requests_processed += 1
h_finally(h) ==
    /\ ai_resumes(h)
    /\ ai_pc[h] = "finally"
    /\ _requests_processed' = _requests_processed + 1
    /\ ai_goto(h, "done")
    /\ ai_ready' = Tail(ai_ready)
    /\ UNCHANGED <<_server, _queue, _putters, _getters, _queue_full_count,
                   ai_running, ai_entry, ai_batch, ai_clock, ai_received,
                   store_vars, ai_frame,
                   ai_input, ai_enqueued, ai_responded>>

\* item = await self._queue.get(), and batch = [item]: with the queue empty
\* _flush_loop waits as a getter; else get_nowait() takes the item and wakes
\* a putter.  The sentinel None goes to _drain_remaining.
fl_get ==
    /\ ai_pc["flush"] = "get"
    /\ ai_resumes("flush") \/ ai_running = "flush"
    /\ IF _queue = <<>>
       THEN /\ _getters' = Append(_getters, "flush")
            /\ ai_running' = None
            /\ ai_ready' = ai_others
            /\ UNCHANGED <<_queue, _putters, ai_pc, ai_batch>>
       ELSE /\ _queue' = Tail(_queue)
            /\ _putters' = still_waiting(_putters)
            /\ ai_ready' = ai_others \o woken(_putters)
            /\ ai_running' = "flush"
            /\ ai_goto("flush", IF Head(_queue) = Sentinel THEN "drain" ELSE "more")
            /\ ai_batch' = IF Head(_queue) = Sentinel THEN <<>>
                           ELSE <<Head(_queue)>>
            /\ UNCHANGED _getters
    /\ UNCHANGED <<_server, _requests_processed, _queue_full_count, ai_entry,
                   ai_clock, ai_received, store_vars, ai_frame,
                   ai_input, ai_enqueued, ai_responded>>

\* while len(batch) < _FLUSH_BATCH_SIZE: item = self._queue.get_nowait();
\* QueueEmpty ends the batch, the sentinel ends it for good
fl_more ==
    /\ ai_pc["flush"] = "more"
    /\ ai_running = "flush"
    /\ IF Len(ai_batch) >= _FLUSH_BATCH_SIZE \/ _queue = <<>>
       THEN /\ ai_goto("flush", "flush_batch")
            /\ UNCHANGED <<_queue, _putters, ai_ready, ai_batch>>
       ELSE /\ _queue' = Tail(_queue)
            /\ _putters' = still_waiting(_putters)
            /\ ai_ready' = ai_ready \o woken(_putters)
            /\ IF Head(_queue) = Sentinel
               THEN /\ ai_goto("flush", "flush_last")
                    /\ UNCHANGED ai_batch
               ELSE /\ ai_batch' = Append(ai_batch, Head(_queue))
                    /\ UNCHANGED ai_pc
    /\ UNCHANGED <<_server, _getters, _requests_processed, _queue_full_count,
                   ai_running, ai_entry, ai_clock, ai_received, store_vars,
                   ai_frame,
                   ai_input, ai_enqueued, ai_responded>>

\* _flush_batch(batch), one entry at a time: for entry in batch:
\* self._store.append(entry), ValueError passed over.  After the batch that
\* held the sentinel comes _drain_remaining, else the next queue.get().
_flush_batch ==
    /\ ai_pc["flush"] \in {"flush_batch", "flush_last"}
    /\ ai_running = "flush"
    /\ IF ai_batch = <<>>
       THEN /\ ai_goto("flush", IF ai_pc["flush"] = "flush_last"
                                THEN "drain" ELSE "get")
            /\ UNCHANGED <<ai_batch, store_vars>>
       ELSE /\ store_or_drop(Head(ai_batch))
            /\ ai_batch' = Tail(ai_batch)
            /\ UNCHANGED ai_pc
    /\ UNCHANGED <<_server, _queue, _putters, _getters, _requests_processed,
                   _queue_full_count, ai_ready, ai_running, ai_entry, ai_clock,
                   ai_received, ai_frame,
                   ai_input, ai_enqueued, ai_responded>>

\* _drain_remaining: while not self._queue.empty(): item = get_nowait();
\* if item is not None: self._store.append(item).  With the queue empty
\* _flush_loop returns, and a stop() that awaits the task is resumed.
_drain_remaining ==
    /\ ai_pc["flush"] = "drain"
    /\ ai_running = "flush"
    /\ IF _queue = <<>>
       THEN /\ ai_running' = None
            /\ ai_pc' = [ai_pc EXCEPT !["flush"] = "done"]
            /\ ai_ready' = ai_ready \o
                   (IF ai_pc["stop"] = "await_flush" THEN <<"stop">> ELSE <<>>)
            /\ UNCHANGED <<_queue, _putters, store_vars>>
       ELSE /\ _queue' = Tail(_queue)
            /\ _putters' = still_waiting(_putters)
            /\ ai_ready' = ai_ready \o woken(_putters)
            /\ IF Head(_queue) # Sentinel
               THEN store_or_drop(Head(_queue))
               ELSE UNCHANGED store_vars
            /\ UNCHANGED <<ai_running, ai_pc>>
    /\ UNCHANGED <<_server, _getters, _requests_processed, _queue_full_count,
                   ai_entry, ai_batch, ai_clock, ai_received, ai_frame,
                   ai_input, ai_enqueued, ai_responded>>

\* some task calls await interceptor.stop()
ai_stop_call ==
    /\ _server = "listening"
    /\ ai_pc["stop"] = "none"
    /\ ai_goto("stop", "close")
    /\ ai_ready' = Append(ai_ready, "stop")
    /\ UNCHANGED <<_server, _queue, _putters, _getters, _requests_processed,
                   _queue_full_count, ai_running, ai_entry, ai_batch, ai_clock,
                   ai_received, store_vars, ai_frame,
                   ai_input, ai_enqueued, ai_responded>>

\* where stop() goes once the sentinel is in the queue:
\* if self._flush_task is not None: await self._flush_task
after_sentinel == IF ai_pc["flush"] = "done" THEN "returned" ELSE "await_flush"

\* self._server.close(); await self._server.wait_closed(); then
\* await self._queue.put(None).  wait_closed() returns at once (waits =
\* FALSE: asyncio before Python 3.12, or no connection left) or suspends
\* stop() until the last connection is closed.
ai_stop_close(waits) ==
    /\ ai_resumes("stop")
    /\ ai_pc["stop"] = "close"
    /\ _server' = "closed"
    /\ IF waits /\ \E h \in Handlers : ai_active(h)
       THEN /\ ai_goto("stop", "wait_closed")
            /\ ai_ready' = Tail(ai_ready)
            /\ UNCHANGED <<_queue, _putters, _getters, ai_enqueued>>
       ELSE queue_put("stop", Sentinel, after_sentinel)
    /\ UNCHANGED <<_requests_processed, _queue_full_count, ai_running,
                   ai_entry, ai_batch, ai_clock, ai_received, store_vars,
                   ai_frame,
                   ai_input, ai_responded>>

\* stop() resumed after wait_closed() or in queue.put(None)
ai_stop_put ==
    /\ ai_resumes("stop")
    /\ ai_pc["stop"] \in {"put", "put_wait"}
    /\ queue_put("stop", Sentinel, after_sentinel)
    /\ UNCHANGED <<_server, _requests_processed, _queue_full_count, ai_running,
                   ai_entry, ai_batch, ai_clock, ai_received, store_vars,
                   ai_frame,
                   ai_input, ai_responded>>

\* the flush task is done: self._flush_task = None, and stop() returns
ai_stop_return ==
    /\ ai_resumes("stop")
    /\ ai_pc["stop"] = "await_flush"
    /\ ai_goto("stop", "returned")
    /\ ai_ready' = Tail(ai_ready)
    /\ UNCHANGED <<_server, _queue, _putters, _getters, _requests_processed,
                   _queue_full_count, ai_running, ai_entry, ai_batch, ai_clock,
                   ai_received, store_vars, ai_frame,
                   ai_input, ai_enqueued, ai_responded>>

NextIntercept ==
    \/ ai_start
    \/ \E h \in Handlers : ai_accept(h)
    \/ \E h \in Handlers, input \in Inputs : ai_request(h, input)
    \/ \E h \in Handlers : h_handle(h)
    \/ \E h \in Handlers : h_put_resume(h)
    \/ \E h \in Handlers : h_bad(h)
    \/ \E h \in Handlers : ai_conn_lost(h)
    \/ \E h \in Handlers : h_finally(h)
    \/ fl_get
    \/ fl_more
    \/ _flush_batch
    \/ _drain_remaining
    \/ ai_stop_call
    \/ \E waits \in BOOLEAN : ai_stop_close(waits)
    \/ ai_stop_put
    \/ ai_stop_return

SpecIntercept == Init /\ [][NextIntercept]_vars

\* ---------------------------------------------------------------------
\* interceptor/threaded.py -- ThreadedInterceptor._handle_connection run by
\* the worker threads of the pool.  The threads share self._audit_store
\* and call its append with no lock held; a thread can be preempted
\* between any two statements of append.

th_frame == <<core_vars, map_vars, log_vars, icpt_vars, dom_vars>>
th_goto(w, pc) == th_pc' = [th_pc EXCEPT ![w] = pc]
th_store == <<columns, _count, cs_result, cs_accepted>>

\* the accept loop hands a connection to worker w; read_message and
\* InterceptRequest.from_bytes return a request (parsed) or raise
th_read(w, parsed) ==
    /\ th_pc[w] = "idle"
    /\ th_goto(w, IF parsed THEN "create" ELSE "finally")
    /\ th_loc' = [th_loc EXCEPT ![w].parsed = parsed]
    /\ UNCHANGED <<th_clock, th_responded, th_requests_processed,
                   th_store, th_frame>>

\* 3-6: look up, evaluate, AuditEntry.create(...) with timestamp time.time()
th_create(w) ==
    /\ th_pc[w] = "create"
    /\ th_loc' = [th_loc EXCEPT ![w].entry = StoreEntry(w, th_clock)]
    /\ th_clock' = th_clock + 1
    /\ th_goto(w, "append")
    /\ UNCHANGED <<th_responded, th_requests_processed, th_store, th_frame>>

\* 7: self._audit_store.append(entry), its test first: an out-of-order
\* timestamp raises ValueError, which except Exception logs; the worker
\* goes to finally with no response sent
th_append(w) ==
    /\ th_pc[w] = "append"
    /\ IF out_of_order(_count, _timestamps, th_loc[w].entry.timestamp)
       THEN th_goto(w, "finally")
       ELSE th_goto(w, "st_timestamp")
    /\ UNCHANGED <<th_loc, th_clock, th_responded, th_requests_processed,
                   th_store, th_frame>>

\* columnar_store.py line 91
th_timestamp(w) ==
    /\ th_pc[w] = "st_timestamp"
    /\ append_timestamp(th_loc[w].entry)
    /\ th_goto(w, "st_fields")
    /\ UNCHANGED <<_agent_ids, _domains, _decisions, _reasons, _policy_ids,
                   _rule_ids, _entry_ids, _methods, _paths, _source_ips,
                   _latencies, _count, cs_result, cs_accepted>>
    /\ UNCHANGED <<th_loc, th_clock, th_responded, th_requests_processed,
                   th_frame>>

\* lines 92-108, and the read of self._count for line 109
th_fields(w) ==
    /\ th_pc[w] = "st_fields"
    /\ append_fields(th_loc[w].entry)
    /\ th_loc' = [th_loc EXCEPT ![w].count = _count]
    /\ th_goto(w, "st_count")
    /\ UNCHANGED <<_timestamps, _count, cs_result, cs_accepted>>
    /\ UNCHANGED <<th_clock, th_responded, th_requests_processed, th_frame>>

\* line 109: the write of self._count; append returns
th_count(w) ==
    /\ th_pc[w] = "st_count"
    /\ _count' = th_loc[w].count + 1
    /\ cs_accepted' = Append(cs_accepted, th_loc[w].entry)
    /\ th_goto(w, "respond")
    /\ UNCHANGED <<columns, cs_result>>
    /\ UNCHANGED <<th_loc, th_clock, th_responded, th_requests_processed,
                   th_frame>>

\* 8: write_message(client_sock, resp_payload)
th_respond(w) ==
    /\ th_pc[w] = "respond"
    /\ th_responded' = th_responded \cup {w}
    /\ th_goto(w, "finally")
    /\ UNCHANGED <<th_loc, th_clock, th_requests_processed, th_store,
                   th_frame>>

\* finally: client_sock.close(); with self._lock:
\* self._requests_processed += 1
th_finally(w) ==
    /\ th_pc[w] = "finally"
    /\ th_requests_processed' = th_requests_processed + 1
    /\ th_goto(w, "done")
    /\ UNCHANGED <<th_loc, th_clock, th_responded, th_store, th_frame>>

NextThreaded ==
    \E w \in Workers :
        \/ \E parsed \in BOOLEAN : th_read(w, parsed)
        \/ th_create(w)
        \/ th_append(w)
        \/ th_timestamp(w)
        \/ th_fields(w)
        \/ th_count(w)
        \/ th_respond(w)
        \/ th_finally(w)

SpecThreaded == Init /\ [][NextThreaded]_vars


\* ---------------------------------------------------------------------
\* domain/policy.py and interceptor/evaluator.py -- policy evaluation

dom_frame == <<core_vars, map_vars, store_vars, log_vars, icpt_vars, th_vars,
               en_vars, gr_vars, dm_vars, se_vars>>

\* sorted(items, key=lambda x: x.priority): Python's sort is stable, an
\* item goes behind the items of smaller or equal priority before it
RECURSIVE sorted_by_priority(_)
sorted_by_priority(items) ==
    IF items = <<>> THEN <<>>
    ELSE LET front == sorted_by_priority(SubSeq(items, 1, Len(items) - 1))
             x == items[Len(items)]
             k == Cardinality({i \in 1 .. Len(front) :
                                   front[i].priority <= x.priority})
         IN SubSeq(front, 1, k) \o <<x>> \o SubSeq(front, k + 1, Len(front))

\* PolicyRule.matches(domain): same number of parts, and each part of the
\* pattern is "*" or the part of the domain
matches(rule, domain) ==
    /\ Len(rule.domain_pattern) = Len(domain)
    /\ \A i \in 1 .. Len(domain) :
           rule.domain_pattern[i] = "*" \/ rule.domain_pattern[i] = domain[i]

\* TimeWindow.contains(dt)
contains(window, dt) ==
    IF dt.weekday \notin window.days_of_week THEN FALSE
    ELSE IF window.start_time <= window.end_time
    THEN window.start_time <= dt.time /\ dt.time <= window.end_time
    ELSE dt.time >= window.start_time \/ dt.time <= window.end_time

\* the first rule of rules that matches domain, or none
RECURSIVE first_match(_, _)
first_match(rules, domain) ==
    IF rules = <<>> THEN NoRule
    ELSE IF matches(Head(rules), domain) THEN Head(rules)
    ELSE first_match(Tail(rules), domain)

\* Policy.evaluate(domain, request_time): None outside the time window,
\* else the action of the first matching rule in priority order, or None
policy_evaluate(policy, domain, request_time) ==
    IF policy.time_window # NoWindow
       /\ ~contains(policy.time_window, request_time)
    THEN None
    ELSE first_match(sorted_by_priority(policy.rules), domain).action

\* PolicyEvaluator._find_matched_rule(policy, domain)
_find_matched_rule(policy, domain) ==
    first_match(sorted_by_priority(policy.rules), domain).rule_id

EvaluationResult(decision, reason, policy_id, rule_id) ==
    [decision |-> decision, reason |-> reason, policy_id |-> policy_id,
     rule_id |-> rule_id]

\* the loop of evaluate that does not skip the policies that are not ACTIVE
is_skipped_never(policy) == FALSE

\* if policy.status != PolicyStatus.ACTIVE: continue
is_skipped(policy) == policy.status # "ACTIVE"

\* for policy in sorted_policies: ... the loop of evaluate
RECURSIVE evaluate_loop(_, _, _)
evaluate_loop(policies, domain, now) ==
    IF policies = <<>>
    THEN EvaluationResult("NO_MATCHING_POLICY", "No policy matched", None, None)
    ELSE LET policy == Head(policies)
             action == policy_evaluate(policy, domain, now)
         IN IF is_skipped(policy) \/ action = None
            THEN evaluate_loop(Tail(policies), domain, now)
            ELSE EvaluationResult(
                     IF action = "ALLOW" THEN "ALLOW" ELSE "DENY",
                     "Matched policy", policy.policy_id,
                     _find_matched_rule(policy, domain))

\* PolicyEvaluator.evaluate(request, agent, policies)
evaluate(domain, agent_status, policies, now) ==
    IF agent_status # "ACTIVE"
    THEN EvaluationResult("DENY", "Agent is not ACTIVE", None, None)
    ELSE evaluate_loop(sorted_by_priority(policies), domain, now)

\* the lists of at most MaxPolicies policies, named by their place
PolicyLists ==
    UNION {[1 .. n -> PolicyShapes] : n \in 0 .. MaxPolicies}

PolicyNames == <<"p1", "p2", "p3", "p4">>

with_ids(shapes) ==
    [i \in 1 .. Len(shapes) |->
        [policy_id |-> PolicyNames[i], rules |-> shapes[i].rules,
         status |-> shapes[i].status, priority |-> shapes[i].priority,
         time_window |-> shapes[i].time_window]]

\* evaluator.evaluate(request, agent, policies), called once in a run: the
\* evaluator keeps no state from one call to the next
ev_evaluate(agent_status, shapes, now) ==
    /\ ev_call' = [called |-> TRUE, agent_status |-> agent_status,
                   policies |-> with_ids(shapes), domain |-> RequestDomain,
                   now |-> now,
                   result |-> evaluate(RequestDomain, agent_status,
                                       with_ids(shapes), now)]
    /\ UNCHANGED <<ag_vars, po_vars, dom_frame>>

NextEvaluator ==
    /\ ~ev_call.called
    /\ \E agent_status \in {"ACTIVE", "SUSPENDED"}, shapes \in PolicyLists,
          now \in Moments :
           ev_evaluate(agent_status, shapes, now)

SpecEvaluator == Init /\ [][NextEvaluator]_vars


\* ---------------------------------------------------------------------
\* domain/agent.py -- the lifecycle of an Agent made by Agent.create

\* a _transition_to that allows every status
allowed_any(status) == AgentStatus

\* allowed = VALID_TRANSITIONS.get(self.status, set())
allowed(status) == VALID_TRANSITIONS[status]

\* Agent._transition_to(new_status): the status after the call and what it
\* raised
_transition_to(status, new_status) ==
    IF new_status \notin allowed(status)
    THEN [status |-> status, raised |-> "InvalidTransition"]
    ELSE [status |-> new_status, raised |-> None]

\* agent.activate(), suspend(), deactivate() or mark_expired()
ag_call(op) ==
    /\ Len(ag_hist) < MaxLifecycleCalls
    /\ LET done == _transition_to(ag_status, AgentCalls[op]) IN
       /\ ag_status' = done.status
       /\ ag_hist' = Append(ag_hist,
              [op |-> op, before |-> ag_status, after |-> done.status,
               raised |-> done.raised])
    /\ UNCHANGED <<ev_vars, po_vars, dom_frame>>

NextAgent == \E op \in DOMAIN AgentCalls : ag_call(op)

SpecAgent == Init /\ [][NextAgent]_vars

\* ---------------------------------------------------------------------
\* domain/policy.py -- the lifecycle of a Policy made by Policy.create

po_done(op, raised) ==
    po_hist' = Append(po_hist,
        [op |-> op, before |-> po_status, rules |-> Len(po_rules),
         after |-> po_status', raised |-> raised])

\* an activate that refuses ARCHIVED policies only
activate_raises_archived == po_status = "ARCHIVED" \/ po_rules = <<>>

\* the two checks of activate(): the status is not DRAFT, or no rules
activate_raises == po_status # "DRAFT" \/ po_rules = <<>>

\* policy.activate()
po_activate ==
    /\ Len(po_hist) < MaxLifecycleCalls
    /\ IF activate_raises
       THEN /\ po_status' = po_status
            /\ po_done("activate", "ValueError")
       ELSE /\ po_status' = "ACTIVE"
            /\ po_done("activate", None)
    /\ UNCHANGED <<po_rules, ev_vars, ag_vars, dom_frame>>

\* policy.suspend()
po_suspend ==
    /\ Len(po_hist) < MaxLifecycleCalls
    /\ IF po_status # "ACTIVE"
       THEN /\ po_status' = po_status
            /\ po_done("suspend", "ValueError")
       ELSE /\ po_status' = "SUSPENDED"
            /\ po_done("suspend", None)
    /\ UNCHANGED <<po_rules, ev_vars, ag_vars, dom_frame>>

\* policy.archive()
po_archive ==
    /\ Len(po_hist) < MaxLifecycleCalls
    /\ IF po_status = "ARCHIVED"
       THEN /\ po_status' = po_status
            /\ po_done("archive", "ValueError")
       ELSE /\ po_status' = "ARCHIVED"
            /\ po_done("archive", None)
    /\ UNCHANGED <<po_rules, ev_vars, ag_vars, dom_frame>>

\* policy.add_rule(rule), with a rule the policy does not have yet
add_rule(rule_id) ==
    /\ Len(po_hist) < MaxLifecycleCalls
    /\ \A i \in 1 .. Len(po_rules) : po_rules[i] # rule_id
    /\ po_rules' = Append(po_rules, rule_id)
    /\ po_status' = po_status
    /\ po_done("add_rule", None)
    /\ UNCHANGED <<ev_vars, ag_vars, dom_frame>>

\* policy.remove_rule(rule_id)
remove_rule(rule_id) ==
    /\ Len(po_hist) < MaxLifecycleCalls
    /\ po_status' = po_status
    /\ IF \E i \in 1 .. Len(po_rules) : po_rules[i] = rule_id
       THEN /\ po_rules' = SelectSeq(po_rules, LAMBDA r : r # rule_id)
            /\ po_done("remove_rule", None)
       ELSE /\ po_rules' = po_rules
            /\ po_done("remove_rule", "ValueError")
    /\ UNCHANGED <<ev_vars, ag_vars, dom_frame>>

NextPolicy ==
    \/ po_activate
    \/ po_suspend
    \/ po_archive
    \/ \E rule_id \in PolicyRuleIds : add_rule(rule_id)
    \/ \E rule_id \in PolicyRuleIds : remove_rule(rule_id)

SpecPolicy == Init /\ [][NextPolicy]_vars

\* ---------------------------------------------------------------------
\* graph/adjacency.py, graph/topological.py, graph/policy_engine.py -- the
\* PolicyEngine: policies are registered, dependencies declared, the graph
\* is sorted by build() and evaluate() walks the order

en_frame == <<core_vars, map_vars, store_vars, log_vars, icpt_vars, th_vars,
              ev_vars, ag_vars, po_vars, gr_vars, dm_vars, se_vars>>

\* Graph.add_node(node): the keys after the call
add_node(nodes, node) ==
    IF \E i \in 1 .. Len(nodes) : nodes[i] = node THEN nodes
    ELSE Append(nodes, node)

\* a change of the engine that leaves _built as it was
built_after_change_kept == _built

\* self._built = False, the last statement of register and of add_dependency
built_after_change == FALSE

\* engine.register(policy)
register(pid, rules) ==
    /\ en_calls < MaxEngineCalls
    /\ en_calls' = en_calls + 1
    /\ _policies' = [_policies EXCEPT
                         ![pid] = [registered |-> TRUE, rules |-> rules,
                                   time_window |-> NoWindow]]
    /\ graph_nodes' = add_node(graph_nodes, pid)
    /\ _built' = built_after_change
    /\ en_report' = NoReport
    /\ _rev_keys' = _rev_keys \cup {pid}
    /\ UNCHANGED <<_fwd, _rev, _order, en_frame>>

\* engine.add_dependency(policy_id, depends_on), with two different ids
add_dependency(policy_id, depends_on) ==
    /\ en_calls < MaxEngineCalls
    /\ en_calls' = en_calls + 1
    /\ IF ~_policies[policy_id].registered \/ ~_policies[depends_on].registered
       THEN UNCHANGED <<graph_nodes, _fwd, _rev, _rev_keys, _built>>
       ELSE /\ graph_nodes' = add_node(add_node(graph_nodes, depends_on),
                                       policy_id)
            /\ _fwd' = [_fwd EXCEPT ![depends_on] = Append(@, policy_id)]
            /\ _rev' = [_rev EXCEPT ![policy_id] = Append(@, depends_on)]
            /\ _rev_keys' = _rev_keys \cup {depends_on, policy_id}
            /\ _built' = built_after_change
    /\ en_report' = NoReport
    /\ UNCHANGED <<_policies, _order, en_frame>>

\* a loop over the successors that puts none of them into the queue
relax_none(succs, in_deg, q) == [in_deg |-> in_deg, q |-> q]

\* the loop over graph.successors(node) in topological_sort
RECURSIVE relax(_, _, _)
relax(succs, in_deg, q) ==
    IF succs = <<>> THEN [in_deg |-> in_deg, q |-> q]
    ELSE LET succ == Head(succs)
             deg == [in_deg EXCEPT ![succ] = @ - 1]
         IN relax(Tail(succs), deg,
                  IF deg[succ] = 0 THEN Append(q, succ) ELSE q)

\* the while loop of topological_sort
RECURSIVE kahn(_, _, _, _)
kahn(fwd, q, in_deg, result) ==
    IF q = <<>> THEN result
    ELSE LET after == relax(fwd[Head(q)], in_deg, Tail(q))
         IN kahn(fwd, after.q, after.in_deg, Append(result, Head(q)))

\* a topological_sort that lists every node of a rejected graph
topological_sort_lists_all(nodes, fwd, rev) ==
    LET in_deg == [n \in EngineIds |-> Len(rev[n])]
        q == SelectSeq(nodes, LAMBDA n : in_deg[n] = 0)
        result == kahn(fwd, q, in_deg, <<>>)
    IN IF Len(result) # Len(nodes)
       THEN [raised |-> "CyclicDependencyError", order |-> <<>>,
             remaining_nodes |-> nodes]
       ELSE [raised |-> None, order |-> result, remaining_nodes |-> <<>>]

\* topological_sort(graph)
topological_sort(nodes, fwd, rev) ==
    LET in_deg == [n \in EngineIds |-> Len(rev[n])]
        q == SelectSeq(nodes, LAMBDA n : in_deg[n] = 0)
        result == kahn(fwd, q, in_deg, <<>>)
        in_result(n) == \E i \in 1 .. Len(result) : result[i] = n
    IN IF Len(result) # Len(nodes)
       THEN [raised |-> "CyclicDependencyError", order |-> <<>>,
             remaining_nodes |-> SelectSeq(nodes, LAMBDA n : ~in_result(n))]
       ELSE [raised |-> None, order |-> result, remaining_nodes |-> <<>>]

\* engine.build()
build ==
    /\ LET sorted == topological_sort(graph_nodes, _fwd, _rev) IN
       IF sorted.raised # None
       THEN UNCHANGED <<_order, _built>>
       ELSE /\ _order' = sorted.order
            /\ _built' = TRUE
    /\ en_report' = NoReport
    /\ UNCHANGED <<_policies, graph_nodes, _fwd, _rev, _rev_keys, en_calls,
                   en_frame>>

\* a set of deny decisions that takes in NO_MATCHING_POLICY
_DENY_DECISIONS_and_no_match == {"DENY", "RATE_LIMITED", "NO_MATCHING_POLICY"}

_DENY_DECISIONS == {"DENY", "RATE_LIMITED"}

\* the loop over the prerequisites of pid
prereq_denied(pid, decided) ==
    \E i \in 1 .. Len(_rev[pid]) :
        /\ decided[_rev[pid][i]] # None
        /\ decided[_rev[pid][i]] \in _DENY_DECISIONS

\* the decision of a policy that is evaluated
engine_decision(pid, domain, request_time) ==
    LET action == policy_evaluate(_policies[pid], domain, request_time) IN
    IF action = None THEN "NO_MATCHING_POLICY"
    ELSE IF action = "ALLOW" THEN "ALLOW"
    ELSE "DENY"

\* the loop of evaluate over self._order: the results
RECURSIVE evaluate_order(_, _, _, _, _, _)
evaluate_order(order, decided, results, domain, request_time, elapsed) ==
    IF order = <<>> THEN results
    ELSE LET pid == Head(order) IN
         IF prereq_denied(pid, decided)
         THEN evaluate_order(Tail(order), [decided EXCEPT ![pid] = "DENY"],
                  Append(results,
                      [policy_id |-> pid, decision |-> "DENY",
                       eval_time_ms |-> 0, short_circuited |-> TRUE,
                       evaluated |-> FALSE]),
                  domain, request_time, elapsed)
         ELSE LET dec == engine_decision(pid, domain, request_time) IN
              evaluate_order(Tail(order), [decided EXCEPT ![pid] = dec],
                  Append(results,
                      [policy_id |-> pid, decision |-> dec,
                       eval_time_ms |-> elapsed, short_circuited |-> FALSE,
                       evaluated |-> TRUE]),
                  domain, request_time, elapsed)

\* the final decision of a report
final_decision(results) ==
    IF \E i \in 1 .. Len(results) : results[i].decision = "DENY" THEN "DENY"
    ELSE IF \E i \in 1 .. Len(results) : results[i].decision = "ALLOW"
    THEN "ALLOW"
    ELSE "NO_MATCHING_POLICY"

\* the number of short-circuited results
RECURSIVE skipped(_)
skipped(results) ==
    IF results = <<>> THEN 0
    ELSE (IF Head(results).short_circuited THEN 1 ELSE 0)
         + skipped(Tail(results))

\* engine.evaluate(domain, request_time); elapsed is the time the clock
\* measures for one policy
evaluate_report(elapsed) ==
    IF ~_built \/ _order = NoOrder
    THEN [called |-> TRUE, raised |-> "RuntimeError"]
    ELSE LET results ==
                 evaluate_order(_order, [n \in EngineIds |-> None], <<>>,
                                RequestDomain, [weekday |-> 0, time |-> 2],
                                elapsed)
         IN [called |-> TRUE, raised |-> None, flat |-> FALSE,
             results |-> results,
             final_decision |-> final_decision(results),
             policies_evaluated |-> Len(results) - skipped(results),
             policies_skipped |-> skipped(results)]

engine_evaluate(elapsed) ==
    /\ en_report' = evaluate_report(elapsed)
    /\ UNCHANGED <<_policies, graph_nodes, _fwd, _rev, _rev_keys, _order,
                   _built, en_calls, en_frame>>

\* a flat loop that leaves out the policy registered first
RECURSIVE evaluate_flat_results_but_first(_, _, _, _)
evaluate_flat_results_but_first(pids, domain, request_time, elapsed) ==
    IF Len(pids) <= 1 THEN <<>>
    ELSE LET pid == pids[Len(pids)] IN
         Append(evaluate_flat_results_but_first(SubSeq(pids, 1, Len(pids) - 1),
                    domain, request_time, elapsed),
                [policy_id |-> pid,
                 decision |-> engine_decision(pid, domain, request_time),
                 eval_time_ms |-> elapsed, short_circuited |-> FALSE,
                 evaluated |-> TRUE])

\* the loop of evaluate_flat over self._policies.items(): the keys of the
\* dict are in the order of their first registration, as graph_nodes is
RECURSIVE evaluate_flat_results(_, _, _, _)
evaluate_flat_results(pids, domain, request_time, elapsed) ==
    IF pids = <<>> THEN <<>>
    ELSE LET pid == pids[Len(pids)] IN
         Append(evaluate_flat_results(SubSeq(pids, 1, Len(pids) - 1),
                    domain, request_time, elapsed),
                [policy_id |-> pid,
                 decision |-> engine_decision(pid, domain, request_time),
                 eval_time_ms |-> elapsed, short_circuited |-> FALSE,
                 evaluated |-> TRUE])

\* what engine.evaluate_flat(domain, request_time) returns
evaluate_flat_report(elapsed) ==
    LET results == evaluate_flat_results(graph_nodes, RequestDomain,
                       [weekday |-> 0, time |-> 2], elapsed)
    IN [called |-> TRUE, raised |-> None, flat |-> TRUE,
        results |-> results,
        final_decision |-> final_decision(results),
        policies_evaluated |-> Len(results),
        policies_skipped |-> 0]

\* engine.evaluate_flat(domain, request_time)
engine_evaluate_flat(elapsed) ==
    /\ en_report' = evaluate_flat_report(elapsed)
    /\ UNCHANGED <<_policies, graph_nodes, _fwd, _rev, _rev_keys, _order,
                   _built, en_calls, en_frame>>

NextEngine ==
    \/ \E pid \in EngineIds, rules \in EngineRules : register(pid, rules)
    \/ \E policy_id \in EngineIds :
           \E depends_on \in EngineIds \ {policy_id} :
               add_dependency(policy_id, depends_on)
    \/ build
    \/ \E elapsed \in {0, 1} : engine_evaluate(elapsed)

SpecEngine == Init /\ [][NextEngine]_vars

\* the engine with the flat evaluation, to compare with what evaluate
\* returns in the same state
NextEngineFlat ==
    \/ \E pid \in EngineIds, rules \in EngineRules : register(pid, rules)
    \/ \E policy_id \in EngineIds :
           \E depends_on \in EngineIds \ {policy_id} :
               add_dependency(policy_id, depends_on)
    \/ build
    \/ engine_evaluate_flat(1)

SpecEngineFlat == Init /\ [][NextEngineFlat]_vars

\* ---------------------------------------------------------------------
\* graph/adjacency.py -- a Graph used on its own, and the functions of
\* graph/topological.py and graph/critical_path.py called on it

g_frame == <<core_vars, map_vars, store_vars, log_vars, icpt_vars, th_vars,
             ev_vars, ag_vars, po_vars, _policies, _order, _built, en_report,
             en_calls, dm_vars, se_vars>>

\* x in list
in_list(list, x) == \E i \in 1 .. Len(list) : list[i] = x

\* list.remove(x): the list without the first x
RECURSIVE list_remove(_, _)
list_remove(list, x) ==
    IF list = <<>> THEN <<>>
    ELSE IF Head(list) = x THEN Tail(list)
    ELSE <<Head(list)>> \o list_remove(Tail(list), x)

\* the calls that change the graph are counted; topological_sort and
\* critical_path do not change the graph, so a run that goes on after one of
\* them reaches no graph that a run without it does not reach, and the runs
\* end with them
g_called ==
    /\ g_result = NoResult
    /\ g_calls < MaxGraphCalls
    /\ g_calls' = g_calls + 1
    /\ g_result' = NoResult

\* graph.add_node(node)
g_add_node(node) ==
    /\ g_called
    /\ IF in_list(graph_nodes, node)
       THEN UNCHANGED <<graph_nodes, _fwd, _rev, _rev_keys>>
       ELSE /\ graph_nodes' = Append(graph_nodes, node)
            /\ _fwd' = [_fwd EXCEPT ![node] = <<>>]
            /\ _rev' = [_rev EXCEPT ![node] = <<>>]
            /\ _rev_keys' = _rev_keys \cup {node}
    /\ UNCHANGED g_frame

\* graph.add_edge(src, dst)
g_add_edge(src, dst) ==
    /\ g_called
    /\ LET fresh == {n \in {src, dst} : ~in_list(graph_nodes, n)}
           fwd == [n \in EngineIds |-> IF n \in fresh THEN <<>> ELSE _fwd[n]]
           rev == [n \in EngineIds |-> IF n \in fresh THEN <<>> ELSE _rev[n]]
       IN /\ graph_nodes' = add_node(add_node(graph_nodes, src), dst)
          /\ _rev_keys' = _rev_keys \cup fresh
          /\ _fwd' = [fwd EXCEPT ![src] = Append(@, dst)]
          /\ _rev' = [rev EXCEPT ![dst] = Append(@, src)]
    /\ UNCHANGED g_frame

\* a remove_edge that leaves the reverse map alone
g_remove_edge_forward_only(src, dst) ==
    /\ g_called
    /\ IF ~in_list(graph_nodes, src) \/ ~in_list(_fwd[src], dst)
       THEN UNCHANGED _fwd
       ELSE _fwd' = [_fwd EXCEPT ![src] = list_remove(@, dst)]
    /\ UNCHANGED <<_rev, graph_nodes, _rev_keys, g_frame>>

\* graph.remove_edge(src, dst): a KeyError or ValueError of either remove
\* ends the call, after the first remove if it is the second that fails
g_remove_edge(src, dst) ==
    /\ g_called
    /\ IF ~in_list(graph_nodes, src) \/ ~in_list(_fwd[src], dst)
       THEN UNCHANGED <<_fwd, _rev>>
       ELSE /\ _fwd' = [_fwd EXCEPT ![src] = list_remove(@, dst)]
            /\ IF dst \notin _rev_keys \/ ~in_list(_rev[dst], src)
               THEN _rev' = _rev
               ELSE _rev' = [_rev EXCEPT ![dst] = list_remove(@, src)]
    /\ UNCHANGED <<graph_nodes, _rev_keys, g_frame>>

\* for x in list: map[x].remove(node), up to the first remove that raises
RECURSIVE unlink(_, _, _, _)
unlink(list, node, map, keys) ==
    IF list = <<>> THEN [raised |-> FALSE, map |-> map]
    ELSE IF Head(list) \notin keys \/ ~in_list(map[Head(list)], node)
    THEN [raised |-> TRUE, map |-> map]
    ELSE unlink(Tail(list), node,
                [map EXCEPT ![Head(list)] = list_remove(@, node)], keys)

\* graph.remove_node(node)
g_remove_node(node) ==
    /\ g_called
    /\ IF ~in_list(graph_nodes, node)
       THEN UNCHANGED <<graph_nodes, _fwd, _rev, _rev_keys>>
       ELSE LET fwd_keys == {graph_nodes[i] : i \in 1 .. Len(graph_nodes)}
                first == unlink(_fwd[node], node, _rev, _rev_keys)
                second == unlink(first.map[node], node, _fwd, fwd_keys)
            IN IF first.raised
               THEN /\ _rev' = first.map
                    /\ UNCHANGED <<graph_nodes, _fwd, _rev_keys>>
               ELSE IF second.raised
               THEN /\ _rev' = first.map
                    /\ _fwd' = second.map
                    /\ UNCHANGED <<graph_nodes, _rev_keys>>
               ELSE /\ _fwd' = [second.map EXCEPT ![node] = <<>>]
                    /\ _rev' = [first.map EXCEPT ![node] = <<>>]
                    /\ graph_nodes' = SelectSeq(graph_nodes,
                                                LAMBDA n : n # node)
                    /\ _rev_keys' = _rev_keys \ {node}
    /\ UNCHANGED g_frame

\* topological_sort(graph) is called
ts_call ==
    /\ g_result = NoResult
    /\ g_result' = [called |-> TRUE, op |-> "topological_sort"] @@
                   topological_sort(graph_nodes, _fwd, _rev)
    /\ UNCHANGED <<graph_nodes, _fwd, _rev, _rev_keys, g_calls, g_frame>>

\* a weights.get that takes a missing weight for 1
weight_of_missing_is_one(weights, node) ==
    IF node \in DOMAIN weights THEN weights[node] ELSE 1

\* weights.get(node, 0.0)
weight_of(weights, node) ==
    IF node \in DOMAIN weights THEN weights[node] ELSE 0

\* the loop over graph.successors(node) in critical_path
RECURSIVE cp_relax(_, _, _, _, _)
cp_relax(succs, node, w, dist, pred) ==
    IF succs = <<>> THEN [dist |-> dist, pred |-> pred]
    ELSE LET succ == Head(succs)
             new_dist == dist[node] + w
         IN IF new_dist > dist[succ]
            THEN cp_relax(Tail(succs), node, w,
                          [dist EXCEPT ![succ] = new_dist],
                          [pred EXCEPT ![succ] = node])
            ELSE cp_relax(Tail(succs), node, w, dist, pred)

\* the loop over order that fills dist and pred
RECURSIVE cp_distances(_, _, _, _, _)
cp_distances(order, fwd, weights, dist, pred) ==
    IF order = <<>> THEN [dist |-> dist, pred |-> pred]
    ELSE LET after == cp_relax(fwd[Head(order)], Head(order),
                               weight_of(weights, Head(order)), dist, pred)
         IN cp_distances(Tail(order), fwd, weights, after.dist, after.pred)

\* best_total = -1.0
best_total_start == -1

\* the loop over order that finds the endpoint
RECURSIVE cp_best(_, _, _, _, _)
cp_best(order, weights, dist, best_node, best_total) ==
    IF order = <<>> THEN [best_node |-> best_node, best_total |-> best_total]
    ELSE LET total == dist[Head(order)] + weight_of(weights, Head(order))
         IN IF total > best_total
            THEN cp_best(Tail(order), weights, dist, Head(order), total)
            ELSE cp_best(Tail(order), weights, dist, best_node, best_total)

\* the path from the start of the chain of predecessors to cur
RECURSIVE cp_path(_, _)
cp_path(cur, pred) ==
    IF pred[cur] = None THEN <<cur>>
    ELSE Append(cp_path(pred[cur], pred), cur)

\* max(path, key=...): the first of the heaviest nodes of the path
cp_max(path, weights) ==
    path[CHOOSE i \in 1 .. Len(path) :
             /\ \A j \in 1 .. Len(path) :
                    weight_of(weights, path[j]) <= weight_of(weights, path[i])
             /\ \A j \in 1 .. i - 1 :
                    weight_of(weights, path[j]) < weight_of(weights, path[i])]

\* critical_path(graph, weights)
critical_path(nodes, fwd, rev, weights) ==
    LET sorted == topological_sort(nodes, fwd, rev) IN
    IF sorted.raised # None
    THEN [raised |-> sorted.raised]
    ELSE LET filled == cp_distances(sorted.order, fwd, weights,
                           [n \in EngineIds |-> 0],
                           [n \in EngineIds |-> None])
             best == cp_best(sorted.order, weights, filled.dist, None,
                             best_total_start)
         IN IF best.best_node = None
            THEN [raised |-> "ValueError"]
            ELSE LET path == cp_path(best.best_node, filled.pred)
                     bn == cp_max(path, weights)
                 IN [raised |-> None, path |-> path,
                     total_weight |-> best.best_total,
                     bottleneck |-> bn,
                     bottleneck_weight |-> weight_of(weights, bn)]

\* critical_path(graph, weights) is called
cp_call(weights) ==
    /\ g_calls <= MaxPathCalls
    /\ g_result' = [called |-> TRUE, op |-> "critical_path",
                    weights |-> weights] @@
                   critical_path(graph_nodes, _fwd, _rev, weights)
    /\ UNCHANGED <<graph_nodes, _fwd, _rev, _rev_keys, g_calls, g_frame>>

NextGraph ==
    \/ /\ g_result = NoResult
       /\ \E weights \in Weights : cp_call(weights)
    \/ \E node \in EngineIds : g_add_node(node)
    \/ \E src \in EngineIds, dst \in EngineIds : g_add_edge(src, dst)
    \/ \E src \in EngineIds, dst \in EngineIds : g_remove_edge(src, dst)
    \/ \E node \in EngineIds : g_remove_node(node)
    \/ ts_call

SpecGraph == Init /\ [][NextGraph]_vars

\* ---------------------------------------------------------------------
\* strings/trie.py, strings/aho_corasick.py, strings/domain_matcher.py --
\* a DomainMatcher with its trie and its automaton

dm_frame == <<core_vars, map_vars, store_vars, log_vars, icpt_vars, th_vars,
              ev_vars, ag_vars, po_vars, en_vars, gr_vars, se_vars>>

\* segments.reverse()
RECURSIVE reversed(_)
reversed(segments) ==
    IF segments = <<>> THEN <<>>
    ELSE Append(reversed(Tail(segments)), Head(segments))

\* the nodes of the trie, each by the path of segments from the root: the
\* paths insert() has made for the patterns
trie_nodes(patterns) ==
    UNION {{SubSeq(reversed(patterns[i]), 1, k) : k \in 0 .. Len(patterns[i])} :
               i \in 1 .. Len(patterns)} \cup {<<>>}

\* node.patterns: the patterns insert() has appended at the node
trie_patterns(patterns, node) ==
    SelectSeq(patterns, LAMBDA pattern : reversed(pattern) = node)

\* DomainTrie._walk(node, segments, depth, results): what it adds to results
RECURSIVE _walk(_, _, _, _)
_walk(patterns, node, segments, depth) ==
    IF depth = Len(segments) THEN trie_patterns(patterns, node)
    ELSE LET seg == segments[depth + 1]
             child == Append(node, seg)
             wild == Append(node, "*")
         IN (IF child \in trie_nodes(patterns)
             THEN _walk(patterns, child, segments, depth + 1) ELSE <<>>)
            \o
            (IF wild \in trie_nodes(patterns)
             THEN _walk(patterns, wild, segments, depth + 1) ELSE <<>>)

\* DomainTrie.match(domain)
trie_match(patterns, domain) == _walk(patterns, <<>>, reversed(domain), 0)

\* the nodes of the automaton, each by the path of segments from the root
ac_nodes(patterns) ==
    UNION {{SubSeq(patterns[i], 1, k) : k \in 0 .. Len(patterns[i])} :
               i \in 1 .. Len(patterns)} \cup {<<>>}

\* child.fail as build() sets it; the failure links of the nodes above the
\* child are set before it is reached
RECURSIVE ac_fail(_, _)
RECURSIVE ac_fallback(_, _, _)
ac_fallback(nodes, fallback, seg) ==
    IF fallback # <<>> /\ Append(fallback, seg) \notin nodes
    THEN ac_fallback(nodes, ac_fail(nodes, fallback), seg)
    ELSE fallback

ac_fail(nodes, child) ==
    IF Len(child) <= 1 THEN <<>>
    ELSE LET seg == child[Len(child)]
             current == SubSeq(child, 1, Len(child) - 1)
             fallback == ac_fallback(nodes, ac_fail(nodes, current), seg)
             target == IF Append(fallback, seg) \in nodes
                       THEN Append(fallback, seg) ELSE <<>>
         IN IF target = child THEN <<>> ELSE target

\* child.output = child.output + child.fail.output, in the order of the
\* breadth-first walk of build()
RECURSIVE ac_built_output(_, _, _)
ac_built_output(nodes, output, node) ==
    IF Len(node) <= 1 THEN output[node]
    ELSE output[node] \o ac_built_output(nodes, output, ac_fail(nodes, node))

\* AhoCorasick._advance(node, seg, next_active): the node it adds, if any
RECURSIVE _advance(_, _, _)
_advance(nodes, current, seg) ==
    IF current # <<>> /\ Append(current, seg) \notin nodes
    THEN _advance(nodes, ac_fail(nodes, current), seg)
    ELSE IF Append(current, seg) \in nodes THEN {Append(current, seg)}
    ELSE {}

\* the loop of search() over the segments: the active nodes at the end
RECURSIVE ac_active(_, _, _)
ac_active(nodes, active, segments) ==
    IF segments = <<>> THEN active
    ELSE ac_active(nodes,
             UNION {_advance(nodes, node, Head(segments))
                        \cup _advance(nodes, node, "*") : node \in active},
             Tail(segments))

\* a list of the elements of the set
RECURSIVE list_of(_)
list_of(set) ==
    IF set = {} THEN <<>>
    ELSE LET x == CHOOSE x \in set : TRUE IN <<x>> \o list_of(set \ {x})

\* the last loop of search(): the patterns of the outputs that have as
\* many segments as the domain, each once
ac_collect(outputs, n_segments) ==
    list_of({outputs[i] : i \in {j \in 1 .. Len(outputs) :
                                     Len(outputs[j]) = n_segments}})

\* the outputs of the nodes, one list after the other
RECURSIVE ac_outputs(_, _)
ac_outputs(output, node_list) ==
    IF node_list = <<>> THEN <<>>
    ELSE output[Head(node_list)] \o ac_outputs(output, Tail(node_list))

\* AhoCorasick.search(domain), on a built automaton
ac_search(patterns, output, domain) ==
    LET nodes == ac_nodes(patterns)
        active == ac_active(nodes, {<<>>}, domain)
    IN ac_collect(ac_outputs(output, list_of(active \cap SegmentPaths)),
                  Len(domain))

\* pp == "*" or pp == dp for every pair of segments
naive_matches(pattern, domain) ==
    /\ Len(pattern) = Len(domain)
    /\ \A i \in 1 .. Len(pattern) : pattern[i] = "*" \/ pattern[i] = domain[i]

\* DomainMatcher.match_naive(domain)
match_naive(patterns, domain) ==
    SelectSeq(patterns, LAMBDA pattern : naive_matches(pattern, domain))

\* the matcher is changed before it is asked: the match calls do not change
\* it, and the runs end with them
dm_changed == dm_result = NoResult /\ dm_result' = NoResult

\* matcher.add_pattern(pattern)
dm_add_pattern(pattern) ==
    /\ dm_changed
    /\ Len(_patterns) < MaxPatterns
    /\ _patterns' = Append(_patterns, pattern)
    /\ ac_output' = [ac_output EXCEPT ![pattern] = Append(@, pattern)]
    /\ dm_built' = FALSE
    /\ UNCHANGED dm_frame

\* matcher.build(), called after patterns were added
dm_build ==
    /\ dm_changed
    /\ ~dm_built
    /\ ac_output' = [node \in SegmentPaths |->
                        IF node \in ac_nodes(_patterns)
                        THEN ac_built_output(ac_nodes(_patterns), ac_output,
                                             node)
                        ELSE ac_output[node]]
    /\ dm_built' = TRUE
    /\ UNCHANGED <<_patterns, dm_frame>>

\* matcher.match(domain)
dm_match(domain) ==
    /\ dm_result' = [called |-> TRUE, op |-> "match", domain |-> domain,
                     raised |-> None,
                     result |-> trie_match(_patterns, domain)]
    /\ UNCHANGED <<_patterns, ac_output, dm_built, dm_frame>>

\* matcher.match_ac(domain)
dm_match_ac(domain) ==
    /\ dm_result' =
           IF ~dm_built
           THEN [called |-> TRUE, op |-> "match_ac", domain |-> domain,
                 raised |-> "RuntimeError", result |-> <<>>]
           ELSE [called |-> TRUE, op |-> "match_ac", domain |-> domain,
                 raised |-> None,
                 result |-> ac_search(_patterns, ac_output, domain)]
    /\ UNCHANGED <<_patterns, ac_output, dm_built, dm_frame>>

\* matcher.match_naive(domain)
dm_match_naive(domain) ==
    /\ dm_result' = [called |-> TRUE, op |-> "match_naive",
                     domain |-> domain, raised |-> None,
                     result |-> match_naive(_patterns, domain)]
    /\ UNCHANGED <<_patterns, ac_output, dm_built, dm_frame>>

NextMatcher ==
    \/ \E pattern \in DomainPatterns : dm_add_pattern(pattern)
    \/ dm_build
    \/ /\ dm_result = NoResult
       /\ \E domain \in RequestDomains :
              \/ dm_match(domain)
              \/ dm_match_ac(domain)
              \/ dm_match_naive(domain)

SpecMatcher == Init /\ [][NextMatcher]_vars

\* ---------------------------------------------------------------------
\* strings/inverted_index.py, strings/search_engine.py -- the search
\* engine over its inverted index

se_frame == <<core_vars, map_vars, store_vars, log_vars, icpt_vars, th_vars,
              ev_vars, ag_vars, po_vars, en_vars, gr_vars, dm_vars>>

\* str.lower() and str.upper()
str_lower(text) ==
    [i \in 1 .. Len(text) |->
        IF \E pair \in Letters : pair[2] = text[i]
        THEN (CHOOSE pair \in Letters : pair[2] = text[i])[1]
        ELSE text[i]]

str_upper(text) ==
    [i \in 1 .. Len(text) |->
        IF \E pair \in Letters : pair[1] = text[i]
        THEN (CHOOSE pair \in Letters : pair[1] = text[i])[2]
        ELSE text[i]]

\* text.split(sep), with the empty strings between two separators
RECURSIVE str_split(_, _)
str_split(text, sep) ==
    IF \A i \in 1 .. Len(text) : text[i] # sep THEN <<text>>
    ELSE LET i == CHOOSE i \in 1 .. Len(text) :
                      /\ text[i] = sep
                      /\ \A j \in 1 .. i - 1 : text[j] # sep
         IN <<SubSeq(text, 1, i - 1)>>
                \o str_split(SubSeq(text, i + 1, Len(text)), sep)

\* text.split(): the words between runs of whitespace
str_words(text) ==
    SelectSeq(str_split(text, " "), LAMBDA word : word # <<>>)

\* text.strip(chars)
RECURSIVE str_strip(_, _)
str_strip(text, chars) ==
    IF text = <<>> THEN text
    ELSE IF Head(text) \in chars THEN str_strip(Tail(text), chars)
    ELSE IF text[Len(text)] \in chars
         THEN str_strip(SubSeq(text, 1, Len(text) - 1), chars)
    ELSE text

\* sub in text
str_contains(sub, text) ==
    \E i \in 0 .. Len(text) - Len(sub) :
        SubSeq(text, i + 1, i + Len(sub)) = sub

\* the terms add_entry() puts in the posting lists of a field for an entry
domain_terms(entry) ==
    {str_lower(str_split(entry.domain, ".")[i]) :
        i \in 1 .. Len(str_split(entry.domain, "."))}
        \cup {str_lower(entry.domain)}

reason_terms(entry) ==
    {str_strip(str_lower(str_words(entry.reason)[i]),
               {".", ",", ";", ":", "!", "?", "(", ")", "[", "]"}) :
        i \in 1 .. Len(str_words(entry.reason))} \ {<<>>}

posting_terms(entry, field) ==
    CASE field = "domain" -> domain_terms(entry)
      [] field = "agent_id" -> {entry.agent_id}
      [] field = "decision" -> {entry.decision}
      [] field = "reason" -> reason_terms(entry)

\* InvertedIndex.add_entry(entry), the entry index being _count
add_entry(postings, idx, entry) ==
    [field \in IndexedFields |->
        postings[field] \cup
            {<<term, idx>> : term \in posting_terms(entry, field)}]

\* InvertedIndex.search_field(field, term)
search_field(postings, field, term) ==
    LET looked_up == IF field = "decision" THEN str_upper(term)
                     ELSE str_lower(term)
    IN {pair[2] : pair \in {p \in postings[field] : p[1] = looked_up}}

\* sorted(result)
RECURSIVE sorted(_)
sorted(set) ==
    IF set = {} THEN <<>>
    ELSE LET least == CHOOSE x \in set : \A y \in set : x <= y
         IN <<least>> \o sorted(set \ {least})

\* AuditSearchEngine.search("field:value"): one field clause, so that
\* search_and() returns the posting list of the clause
search(postings, field, value) == sorted(search_field(postings, field, value))

\* AuditSearchEngine._entry_matches_all(entry, [(field, value)])
_entry_matches_all(entry, field, value) ==
    CASE field = "domain" ->
             str_contains(str_lower(value), str_lower(entry.domain))
      [] field = "agent_id" -> str_contains(value, entry.agent_id)
      [] field = "decision" -> str_upper(value) = entry.decision
      [] field = "reason" ->
             str_contains(str_lower(value), str_lower(entry.reason))

\* AuditSearchEngine.naive_search("field:value"): the indices are 0-based
RECURSIVE naive_scan(_, _, _, _)
naive_scan(indexed, i, field, value) ==
    IF i > Len(indexed) THEN <<>>
    ELSE (IF _entry_matches_all(indexed[i], field, value)
          THEN <<i - 1>> ELSE <<>>)
         \o naive_scan(indexed, i + 1, field, value)

naive_search(indexed, field, value) == naive_scan(indexed, 1, field, value)

\* engine.index_entry(entry); the search calls do not change the engine,
\* and the runs end with them
index_entry(entry) ==
    /\ se_result = NoResult
    /\ Len(_entries) < MaxEntries
    /\ _postings' = add_entry(_postings, Len(_entries), entry)
    /\ _entries' = Append(_entries, entry)
    /\ UNCHANGED <<se_result, se_frame>>

\* engine.search("field:value")
se_search(field, value) ==
    /\ se_result' = [called |-> TRUE, op |-> "search", field |-> field,
                     value |-> value,
                     result |-> search(_postings, field, value)]
    /\ UNCHANGED <<_postings, _entries, se_frame>>

\* engine.naive_search("field:value")
se_naive_search(field, value) ==
    /\ se_result' = [called |-> TRUE, op |-> "naive_search",
                     field |-> field, value |-> value,
                     result |-> naive_search(_entries, field, value)]
    /\ UNCHANGED <<_postings, _entries, se_frame>>

NextSearch ==
    \/ \E entry \in IndexedEntries : index_entry(entry)
    \/ /\ se_result = NoResult
       /\ \E field \in IndexedFields, value \in QueryValues :
              \/ se_search(field, value)
              \/ se_naive_search(field, value)

SpecSearch == Init /\ [][NextSearch]_vars

\* =============================================================== claims

\* the chain-link invariant I2 at position p (position 0 links to genesis)
LinkHolds(chain, p) ==
    IF p = 0 THEN chain[1].previous_hash = GENESIS_HASH
    ELSE chain[p + 1].previous_hash = chain[p].current_hash

\* the self-hash invariant I3 at position p, with the chain's hash function
SelfHashHolds(chain, key, p) ==
    chain[p + 1].current_hash =
        AppendHash(key, chain[p + 1].entry, chain[p + 1].previous_hash)

FullVerified == ver.op = "verify_full"

\* C1: after any sequence of append calls head_hash is the current_hash of
\* the last entry (GENESIS_HASH while the chain is empty), entry 0 has
\* previous_hash = GENESIS_HASH, and entry i > 0 has the current_hash of
\* entry i-1 as its previous_hash.
C1_ChainLinked ==
    tamper = NoTamper =>
        /\ head_hash = IF Len(entries) = 0 THEN GENESIS_HASH
                       ELSE entries[Len(entries)].current_hash
        /\ Len(entries) > 0 => entries[1].previous_hash = GENESIS_HASH
        /\ \A i \in 2 .. Len(entries) :
               entries[i].previous_hash = entries[i - 1].current_hash

C1_Witness ==
    /\ tamper = NoTamper
    /\ Len(entries) >= 3
    /\ entries[2].entry # entries[3].entry

\* C2: with several threads calling append, sequence numbers are handed out
\* as 0, 1, 2, ... with no duplicate and no gap: the entry stored at
\* position i always has sequence_number = i.
C2_SequenceNumbersDense ==
    \A i \in 1 .. Len(entries) : entries[i].sequence_number = i - 1

\* C3: on a chain built only by append calls, plain or keyed, verify_full
\* returns is_valid with entries_verified = len(chain).
C3_UnmodifiedChainVerifies ==
    (FullVerified /\ tamper = NoTamper) =>
        /\ ver.result.is_valid
        /\ ver.result.entries_verified = Len(entries)

C3_Witness ==
    /\ FullVerified
    /\ tamper = NoTamper
    /\ secret_key # None
    /\ Len(entries) >= 2
    /\ ver.result.entries_verified = Len(entries)

\* C4: one field of the stored entry at position k changed, all stored
\* hashes untouched: verify_full is invalid at k with the hash-mismatch
\* diagnostic.
C4_FieldTamperDetected ==
    (FullVerified /\ tamper.kind = "field") =>
        /\ ~ver.result.is_valid
        /\ ver.result.first_invalid_sequence = tamper.at
        /\ ver.result.error_message = HashMismatch

C4_Witness ==
    /\ FullVerified
    /\ tamper.kind = "field"
    /\ tamper.at = 1
    /\ Len(entries) = 3
    /\ ver.result.first_invalid_sequence = 1

\* C5: entry i with 0 < i < n-1 removed from an n-entry chain: verify_full
\* is invalid at i with the chain-link-broken diagnostic.
C5_DeletionDetected ==
    (FullVerified /\ tamper.kind = "delete"
        /\ 0 < tamper.at /\ tamper.at < tamper.len - 1) =>
        /\ ~ver.result.is_valid
        /\ ver.result.first_invalid_sequence = tamper.at
        /\ ver.result.error_message = LinkBroken

C5_Witness ==
    /\ FullVerified
    /\ tamper.kind = "delete"
    /\ tamper.at = 1
    /\ tamper.len = 3
    /\ ~ver.result.is_valid

\* C6: the stored entries at adjacent positions j and j+1 swapped (j = 0
\* included): verify_full is invalid at j, the lower position.
C6_SwapDetected ==
    (FullVerified /\ tamper.kind = "swap") =>
        /\ ~ver.result.is_valid
        /\ ver.result.first_invalid_sequence = tamper.at

C6_Witness ==
    /\ FullVerified
    /\ tamper.kind = "swap"
    /\ tamper.at = 0
    /\ ~ver.result.is_valid
    /\ ver.result.first_invalid_sequence = 0

Verified == ver.op \in {"verify_full", "verify_range"}

\* the position a failed verification stopped at breaks both I2 and I3
BothBroken ==
    /\ Verified
    /\ ~ver.result.is_valid
    /\ ~LinkHolds(entries, ver.result.first_invalid_sequence)
    /\ ~SelfHashHolds(entries, secret_key, ver.result.first_invalid_sequence)

\* the failing position is the first position of a range that starts after
\* position 0: its previous_hash is not compared with anything
AtTrustedStart ==
    /\ ver.op = "verify_range"
    /\ ver.start > 0
    /\ ver.result.first_invalid_sequence = ver.start

\* C7 as stated: whenever the first failing position violates both I2 and
\* I3, the verifier reports the chain-link failure, never the hash mismatch.
C7_LinkReportedFirst ==
    BothBroken => ver.result.error_message = LinkBroken

\* C7 amended: the chain-link failure is reported whenever the first failing
\* position violates both I2 and I3, unless that position is the trusted
\* first position of a verify_range that starts after position 0; there the
\* hash mismatch is reported.
C7_LinkReportedFirstWhereChecked ==
    BothBroken =>
        IF AtTrustedStart THEN ver.result.error_message = HashMismatch
        ELSE ver.result.error_message = LinkBroken

C7_Witness ==
    /\ BothBroken
    /\ ~AtTrustedStart
    /\ ver.result.first_invalid_sequence > 0
    /\ ver.result.error_message = LinkBroken

RangePositions == ver.start .. ver.end - 1

InRead(t) == rw_pc[t] = "reading"
InWrite(t) == rw_pc[t] = "writing"

\* C9: at most one thread is inside a write section, and no thread is
\* inside a read section while a thread is inside a write section.
C9_MutualExclusion ==
    /\ Cardinality({t \in LockThreads : InWrite(t)}) <= 1
    /\ \A w, r \in LockThreads : ~(InWrite(w) /\ InRead(r))

\* two readers inside together, a writer kept waiting
C9_Witness ==
    /\ Cardinality({t \in LockThreads : InRead(t)}) = 2
    /\ \E w \in LockThreads : rw_pc[w] = "w_wait"

\* the threads registered as waiting for the write lock
WaitingWriters == {t \in LockThreads : rw_pc[t] \in {"w_test", "w_wait"}}

\* C10: while a thread is waiting in write() no reader enters its read
\* section; a reader enters only when the set of waiting writers is empty
\* (and _writers_waiting counts exactly that set).
C10_WriterPreference ==
    [][ /\ _writers_waiting = Cardinality(WaitingWriters)
        /\ \A t \in LockThreads :
               (~InRead(t) /\ InRead(t)') => WaitingWriters = {} ]_vars

\* a reader blocked behind a waiting writer while another reader is inside
C10_Witness ==
    \E r1, r2, w \in LockThreads :
        /\ InRead(r1)
        /\ rw_pc[w] = "w_wait"
        /\ rw_pc[r2] = "r_wait"

\* C11: under fair scheduling every thread waiting in write() gets the write
\* lock in the end, whatever readers keep arriving.
C11_WriterProgress ==
    \A t \in LockThreads : (t \in WaitingWriters) ~> InWrite(t)

\* C11 as the code keeps it: while a thread is waiting in write() some thread
\* gets the write lock in the end, whatever readers keep arriving; which of
\* several waiting writers gets it is not decided, so one of them can be
\* overtaken by the others again and again.
C11_SomeWriterProgress ==
    (WaitingWriters # {}) ~> (\E t \in LockThreads : InWrite(t))

\* two writers waiting behind a reader that is inside its read section
C11_Witness ==
    /\ Cardinality({t \in LockThreads : rw_pc[t] = "w_wait"}) = 2
    /\ \E r \in LockThreads : InRead(r)


\* the value the map holds for a key, or the default
map_get(key, default) == dict_get(_stripes[_stripe_index(key)], key, default)
map_has(key) == dict_has(_stripes[_stripe_index(key)], key)

\* C12: between an update's read of a key and its store no other write to
\* that key happens, so the map always holds what the calls made one at a
\* time would have left: n updates with v -> v + 1 from default 0 leave n.
C12_UpdateAtomic ==
    /\ \A t \in Threads :
           sm_pc[t] = "update_store" =>
               map_get(sm_loc[t].key, sm_loc[t].default) = sm_loc[t].current
    /\ \A key \in Keys :
           /\ map_has(key) = dict_has(sm_model, key)
           /\ map_has(key) => _stripes[_stripe_index(key)][key] = sm_model[key]
           /\ \A i \in StripeIndexes :
                  dict_has(_stripes[i], key) => i = _stripe_index(key)

\* one update of a key is about to store 1 while another update of the same
\* key waits for the lock of the stripe
C12_Witness ==
    \E t1, t2 \in Threads :
        /\ sm_pc[t1] = "update_store"
        /\ sm_loc[t1].current = 1
        /\ sm_pc[t2] = "update_lock"
        /\ sm_loc[t2].key = sm_loc[t1].key

\* the agent's assignment list
agent_list(agent_id) == map_get(agent_id, <<>>)
occurrences(list, policy_id) ==
    Cardinality({i \in 1 .. Len(list) : list[i] = policy_id})

\* C13: no policy id is twice in an agent's list, and after an assign call
\* for an agent has returned its policy id is in the agent's list exactly
\* once, whatever other assign calls ran with it (no remove call for the
\* agent having been made).
C13_AssignAtomicIdempotent ==
    \A a \in AgentIds, p \in PolicyIds :
        /\ occurrences(agent_list(a), p) <= 1
        /\ (/\ [op |-> "assign", agent_id |-> a, policy_id |-> p] \in sm_hist
            /\ \A h \in sm_hist : ~(h.op = "remove" /\ h.agent_id = a)
            /\ \A t \in Threads :
                   ~(sm_pc[t] # "idle" /\ sm_loc[t].call = "remove"
                                       /\ sm_loc[t].key = a))
           => occurrences(agent_list(a), p) = 1

\* three assign calls for one agent have returned, two of them for the same
\* policy id, and the agent's list holds the two policy ids
C13_Witness ==
    \E a \in AgentIds :
        /\ Len(agent_list(a)) = 2
        /\ sm_calls = 3
        /\ \A t \in Threads : sm_pc[t] = "idle"
        /\ \A h \in sm_hist : h.op = "assign" /\ h.agent_id = a

\* no call on the agent's list is under way
Quiet(agent_id) ==
    \A t \in Threads : sm_pc[t] = "idle" \/ sm_loc[t].key # agent_id

\* C14: once remove_policy_from_agent(agent, p) and a concurrent
\* assign_policy_to_agent(agent, q), q # p, have both returned, q is in the
\* agent's list and p is not.
C14_RemoveAssignRaceFree ==
    \A a \in AgentIds, p, q \in PolicyIds :
        (/\ p # q
         /\ Quiet(a)
         /\ sm_hist = {[op |-> "remove", agent_id |-> a, policy_id |-> p],
                       [op |-> "assign", agent_id |-> a, policy_id |-> q]})
        => /\ occurrences(agent_list(a), q) = 1
           /\ occurrences(agent_list(a), p) = 0

\* the rows of the store, as entries
StoredRows == [i \in 1 .. _count |-> _reconstruct_entry(i - 1)]

\* every column holds one value for each of the _count rows
ColumnsAligned ==
    \A c \in 1 .. Len(columns) : Len(columns[c]) = _count

\* C15: the stored timestamps are non-decreasing in row order, and the rows
\* are the entries whose append returned, in the order of the calls (so
\* entries with equal timestamps keep their append order).
C15_TimestampsNonDecreasing ==
    /\ ColumnsAligned
    /\ \A i, j \in 1 .. _count : i < j => _timestamps[i] <= _timestamps[j]
    /\ _count = Len(cs_accepted)
    /\ \A i \in 1 .. _count :
           /\ _timestamps[i] = cs_accepted[i].timestamp
           /\ _entry_ids[i] = uuid_bytes(cs_accepted[i].entry_id)

\* three rows, the first two with equal timestamps and different entries
C15_Witness ==
    /\ _count = 3
    /\ _timestamps[1] = _timestamps[2]
    /\ _entry_ids[1] # _entry_ids[2]
    /\ _timestamps[2] < _timestamps[3]

\* C16: an append with a timestamp smaller than the last stored one raises
\* the out-of-order error and changes no column and not the count.
C16_RejectedAppendLeavesStore ==
    [][ (/\ cs_result' # cs_result
         /\ cs_result'.op = "append"
         /\ _count > 0
         /\ cs_result'.entry.timestamp < _timestamps[Len(_timestamps)])
        => /\ cs_result'.raised = "ValueError"
           /\ UNCHANGED <<columns, _count>> ]_vars

\* an append was rejected by a store of two rows
C16_Witness ==
    /\ cs_result.op = "append"
    /\ cs_result.raised = "ValueError"
    /\ _count = 2

\* the rows with start <= timestamp <= end, in row order
RowsBetween(start, end) ==
    SelectSeq(StoredRows, LAMBDA e : start <= e.timestamp /\ e.timestamp <= end)

\* C17: query_time_range(lo, hi) returns the stored entries with
\* lo <= timestamp <= hi, each once, in insertion order.
C17_RangeQueryExact ==
    cs_result.op = "query_time_range" =>
        cs_result.value = RowsBetween(cs_result.start, cs_result.end)

\* a query that starts after the first of three rows and ends at the
\* timestamp the two other rows share returned those two rows
C17_Witness ==
    /\ cs_result.op = "query_time_range"
    /\ _count = 3
    /\ Len(cs_result.value) = 2
    /\ cs_result.value[1].timestamp = cs_result.end
    /\ cs_result.value[2].timestamp = cs_result.end
    /\ cs_result.value[1] # cs_result.value[2]
    /\ _timestamps[1] < cs_result.start

\* the entry the store gives back for an entry it was handed
StoredForm(e) ==
    [e EXCEPT !.request_method = decode_method(encode_method(@)),
              !.processing_time_ms = float32(@)]

\* what one consumer that takes the entries in order leaves in the store:
\* an entry is kept unless its timestamp is smaller than the last one kept
RECURSIVE Kept(_, _)
Kept(handed, kept) ==
    IF handed = <<>> THEN kept
    ELSE LET e == Head(handed) IN
         Kept(Tail(handed),
              IF kept # <<>> /\ e.timestamp < kept[Len(kept)].timestamp
              THEN kept ELSE Append(kept, e))

\* C18: once the producers have stopped and stop() has returned, the buffer
\* is empty and the store holds, in enqueue order, every entry handed to
\* append() except the ones whose timestamp was smaller than the store's
\* last timestamp when they were drained.
C18_StopDrainsEverything ==
    al_phase = "stopped" =>
        /\ _buffer = <<>>
        /\ ColumnsAligned
        /\ StoredRows = [i \in 1 .. Len(Kept(al_handed, <<>>)) |->
               StoredForm(Kept(al_handed, <<>>)[i])]

\* log.total_entries
total_entries == _count + Len(_buffer)

\* C19: at every moment total_entries (store.count() + len(buffer)) is the
\* number of entries handed to append() less the ones dropped as out of
\* order.
C19_TotalEntriesAccounts ==
    total_entries = Len(al_handed) - al_dropped

\* C19 as the code keeps it: total_entries is never more than the number of
\* entries handed to append() less the ones dropped; an entry a drain has
\* popped and not yet stored is counted neither as queued nor as flushed.
C19_TotalEntriesNeverOver ==
    total_entries <= Len(al_handed) - al_dropped

\* the flush thread holds the one entry handed in so far, before stop() was
\* ever called: total_entries is 0
C19_Witness ==
    /\ al_pc["flush"] = "st_fields"
    /\ al_phase = "open"
    /\ Len(al_handed) = 1
    /\ al_dropped = 0
    /\ total_entries = 0

\* the entry of every request received is a row of the store
ReceivedStored ==
    \A i \in 1 .. Len(ai_received) :
        \E r \in 1 .. _count : StoredRows[r] = StoredForm(ai_received[i])

\* C20: once stop() has returned, the audit queue is empty and the store
\* holds the audit entry of every request that was received and parsed.
C20_StopDrainsQueue ==
    ai_pc["stop"] = "returned" =>
        /\ _queue = <<>>
        /\ ReceivedStored

\* a handler waits in queue.put as a putter that nothing will wake: the
\* flush task, the only consumer of the queue, has returned
Stranded(h) ==
    /\ ai_pc[h] = "put_wait"
    /\ \E i \in 1 .. Len(_putters) : _putters[i] = h
    /\ ai_pc["flush"] = "done"

\* C21: once shutdown has begun no handler stays suspended for ever in the
\* audit queue's put: a handler that waits as a putter always has the flush
\* task left to take an item and wake it, so it can enqueue its entry and
\* return.
C21_NoHandlerStranded ==
    \A h \in Handlers : ~Stranded(h)

\* the connections handled to the end whose input satisfies ok
Finished(ok(_)) == {h \in Handlers : ai_pc[h] = "done" /\ ok(ai_input[h])}

NoFramingError(input) == input \notin FramingErrors

\* an entry of handler h was created, is queued or is stored
HasEntry(h) ==
    \/ \E i \in 1 .. Len(ai_received) : ai_received[i].entry_id = h
    \/ \E i \in 1 .. Len(_queue) :
           _queue[i] # Sentinel /\ _queue[i].entry_id = h
    \/ \E r \in 1 .. _count : _entry_ids[r] = uuid_bytes(h)

\* C22: a connection that ends in a framing error (incomplete read, reset,
\* oversized length header) changes nothing that can be observed: it is
\* not counted in requests_processed, which counts the other connections
\* handled to the end, and no audit entry is created, queued or stored
\* for it.
C22_FramingErrorLeavesNoTrace ==
    /\ _requests_processed = Cardinality(Finished(NoFramingError))
    /\ \A h \in Handlers : ai_input[h] \in FramingErrors => ~HasEntry(h)

\* the well-formed requests: agent_id is a UUID string, as the schema of
\* protocol.py has it
WellFormed == Requests \ {"unknown_text"}

\* the steps of a connection with a well-formed request come in order:
\* no response before the entry is in the queue, no close before the
\* response, no count before the close
StepsInOrder ==
    \A h \in Handlers :
        ai_input[h] \in WellFormed =>
            /\ h \in ai_responded => h \in ai_enqueued
            /\ ai_pc[h] \in {"closing", "finally", "done"} =>
                   h \in ai_responded
            /\ ai_pc[h] \in {"parse", "put_wait"} => h \notin ai_responded

\* C23: a connection with a well-formed request is served in the order
\* enqueue, respond, close, count: a client that has its response has its
\* entry enqueued already, and requests_processed is the number of
\* requests handled to completion (a connection that ended in a framing
\* error carried no request).
C23_OrderAndCount ==
    /\ StepsInOrder
    /\ _requests_processed = Cardinality(Finished(NoFramingError))

\* task t waits in queue.put
InPutters(t, putters) == \E i \in 1 .. Len(putters) : putters[i] = t

\* C24: the audit queue never holds more than queue_maxsize items, the
\* sentinel included; a handler that found the queue full waits, its entry
\* not in the queue and no response written, and it leaves the putters of
\* the queue only in a step in which the flush task takes an item out.
C24_Backpressure ==
    /\ [](/\ Len(_queue) <= queue_maxsize
          /\ \A h \in Handlers :
                 InPutters(h, _putters) =>
                     /\ ai_pc[h] = "put_wait"
                     /\ h \notin ai_enqueued
                     /\ h \notin ai_responded
                     /\ \A i \in 1 .. Len(ai_ready) : ai_ready[i] # h)
    /\ [][\A h \in Handlers :
              InPutters(h, _putters) /\ ~InPutters(h, _putters') =>
                  /\ Len(_queue') = Len(_queue) - 1
                  /\ ai_running' = "flush"]_vars

\* C24 witness: the queue is full with the sentinel in it and a handler
\* waits in put
C24_Witness ==
    /\ Len(_queue) = queue_maxsize
    /\ \E i \in 1 .. Len(_queue) : _queue[i] = Sentinel
    /\ \E h \in Handlers : InPutters(h, _putters) /\ ai_pc[h] = "put_wait"

\* the rows of the store that carry the entry id of worker w
RowsOf(w) == {r \in 1 .. Len(_entry_ids) : _entry_ids[r] = uuid_bytes(w)}

\* C25: whatever the interleaving of the workers, a worker that has
\* finished a connection whose request parsed has sent its response and
\* has exactly one audit entry in the store.
C25_EveryRequestAnsweredAndStored ==
    \A w \in Workers :
        th_pc[w] = "done" /\ th_loc[w].parsed =>
            /\ w \in th_responded
            /\ Cardinality(RowsOf(w)) = 1

\* the decision in the response of handler h: resp.decision is
\* result.decision, the decision of the entry
response_decision(h) == ai_entry[h].decision

\* C26: a well-framed request whose agent is unknown or not active is
\* denied, never failed: once its handler has passed the audit queue's put
\* and gone on to close the connection, a DENY response has been written
\* and a DENY audit entry was created and enqueued for it.
C26_IneligibleAgentDenied ==
    \A h \in Handlers :
        /\ ai_input[h] \in {"inactive", "unknown", "unknown_text"}
        /\ ai_pc[h] \in {"closing", "finally", "done"}
        => /\ h \in ai_responded
           /\ h \in ai_enqueued
           /\ \E i \in 1 .. Len(ai_received) :
                  /\ ai_received[i].entry_id = h
                  /\ ai_received[i].decision = "DENY"
           /\ response_decision(h) = "DENY"

\* the places in the list of the policies that decide: ACTIVE, and their own
\* evaluation yields an action
Deciding(call) ==
    {i \in 1 .. Len(call.policies) :
        /\ call.policies[i].status = "ACTIVE"
        /\ policy_evaluate(call.policies[i], call.domain, call.now) # None}

\* the deciding policy that comes first: smallest priority, and among
\* equal priorities the first in the list
FirstDeciding(call) ==
    CHOOSE i \in Deciding(call) :
        \A j \in Deciding(call) \ {i} :
            \/ call.policies[i].priority < call.policies[j].priority
            \/ /\ call.policies[i].priority = call.policies[j].priority
               /\ i < j

\* the places of the rules of policy that match, and the one that decides:
\* smallest priority, first in the list among equals
MatchingRules(policy, domain) ==
    {i \in 1 .. Len(policy.rules) : matches(policy.rules[i], domain)}

DecidingRule(policy, domain) ==
    policy.rules[CHOOSE i \in MatchingRules(policy, domain) :
        \A j \in MatchingRules(policy, domain) \ {i} :
            \/ policy.rules[i].priority < policy.rules[j].priority
            \/ /\ policy.rules[i].priority = policy.rules[j].priority
               /\ i < j]

\* C27: for an agent that can make requests, evaluate returns the decision
\* of the first deciding policy (ascending priority, ties in list order,
\* policies that are not ACTIVE skipped), with the policy's id and the id
\* of the rule that matched; it returns NO_MATCHING_POLICY exactly when no
\* policy decides.
C27_FirstDecidingPolicyWins ==
    ev_call.called /\ ev_call.agent_status = "ACTIVE" =>
        IF Deciding(ev_call) = {}
        THEN /\ ev_call.result.decision = "NO_MATCHING_POLICY"
             /\ ev_call.result.policy_id = None
        ELSE LET policy == ev_call.policies[FirstDeciding(ev_call)]
                 rule == DecidingRule(policy, ev_call.domain)
             IN /\ ev_call.result.decision = rule.action
                /\ ev_call.result.policy_id = policy.policy_id
                /\ ev_call.result.rule_id = rule.rule_id

\* C27 witness: two ACTIVE policies of equal priority both decide, with
\* different actions, and the first in the list is the one returned
C27_Witness ==
    /\ ev_call.called
    /\ ev_call.agent_status = "ACTIVE"
    /\ Len(ev_call.policies) = 2
    /\ Deciding(ev_call) = {1, 2}
    /\ ev_call.policies[1].priority = ev_call.policies[2].priority
    /\ policy_evaluate(ev_call.policies[1], ev_call.domain, ev_call.now) #
           policy_evaluate(ev_call.policies[2], ev_call.domain, ev_call.now)
    /\ ev_call.result.policy_id = "p1"

\* the transitions the agent lifecycle allows
AgentEdges ==
    { <<"PENDING", "ACTIVE">>, <<"PENDING", "DEACTIVATED">>,
      <<"ACTIVE", "SUSPENDED">>, <<"ACTIVE", "DEACTIVATED">>,
      <<"ACTIVE", "EXPIRED">>, <<"SUSPENDED", "ACTIVE">>,
      <<"SUSPENDED", "DEACTIVATED">> }

\* C28: over any sequence of activate, suspend, deactivate and mark_expired
\* calls, a call whose transition is allowed makes it and raises nothing; any
\* other call raises InvalidTransition and leaves the status as it was; so
\* the status moves along the allowed transitions only, and DEACTIVATED and
\* EXPIRED are never left.
C28_AgentLifecycle ==
    /\ ag_status = IF ag_hist = <<>> THEN "PENDING"
                   ELSE ag_hist[Len(ag_hist)].after
    /\ \A i \in 1 .. Len(ag_hist) :
           LET c == ag_hist[i] IN
           /\ c.before = IF i = 1 THEN "PENDING" ELSE ag_hist[i - 1].after
           /\ IF <<c.before, AgentCalls[c.op]>> \in AgentEdges
              THEN c.after = AgentCalls[c.op] /\ c.raised = None
              ELSE c.after = c.before /\ c.raised = "InvalidTransition"
           /\ c.before \in {"DEACTIVATED", "EXPIRED"} => c.after = c.before

\* C28 witness: the agent went pending, active, suspended, active, expired
C28_Witness ==
    /\ Len(ag_hist) = 4
    /\ ag_hist[1].op = "activate" /\ ag_hist[1].after = "ACTIVE"
    /\ ag_hist[2].op = "suspend" /\ ag_hist[2].after = "SUSPENDED"
    /\ ag_hist[3].op = "activate" /\ ag_hist[3].after = "ACTIVE"
    /\ ag_hist[4].op = "mark_expired" /\ ag_status = "EXPIRED"

\* the transitions of the policy lifecycle
PolicyEdges ==
    { <<"DRAFT", "ACTIVE">>, <<"ACTIVE", "SUSPENDED">>,
      <<"SUSPENDED", "ACTIVE">>, <<"DRAFT", "ARCHIVED">>,
      <<"ACTIVE", "ARCHIVED">>, <<"SUSPENDED", "ARCHIVED">> }

\* the calls keep to the transitions in edges: the status changes along
\* them only, DRAFT to ACTIVE only with a rule, ARCHIVED is never left, and
\* a call that raises leaves the status as it was
PolicyCallsKeepTo(edges) ==
    \A i \in 1 .. Len(po_hist) :
        LET c == po_hist[i] IN
        /\ c.after # c.before => <<c.before, c.after>> \in edges
        /\ c.before = "DRAFT" /\ c.after = "ACTIVE" => c.rules >= 1
        /\ c.before = "ARCHIVED" => c.after = "ARCHIVED"
        /\ c.raised # None => c.after = c.before

\* from the current status, one operation of the policy makes the
\* transition e (DRAFT to ACTIVE is asked of a policy with a rule)
PolicyEdgeOpen(e) ==
    /\ po_status = e[1]
    /\ Len(po_hist) < MaxLifecycleCalls
    /\ e = <<"DRAFT", "ACTIVE">> => po_rules # <<>>
    => ENABLED (NextPolicy /\ po_status' = e[2])

\* C29 as stated: the policy's status changes exactly along DRAFT to ACTIVE
\* (with at least one rule), ACTIVE to SUSPENDED, SUSPENDED to ACTIVE and
\* any non-archived status to ARCHIVED; the calls keep to these transitions,
\* a disallowed call raises and leaves the status unchanged, and each of the
\* transitions can be made by an operation of the policy.
C29_PolicyLifecycle ==
    /\ PolicyCallsKeepTo(PolicyEdges)
    /\ \A e \in PolicyEdges : PolicyEdgeOpen(e)

\* C29 amended: the same without SUSPENDED to ACTIVE, which no operation of
\* the policy makes: activate() on a SUSPENDED policy raises and leaves it
\* SUSPENDED, and from SUSPENDED only ARCHIVED can be reached.
C29_PolicyLifecycleWithoutResume ==
    /\ PolicyCallsKeepTo(PolicyEdges \ {<<"SUSPENDED", "ACTIVE">>})
    /\ \A e \in PolicyEdges \ {<<"SUSPENDED", "ACTIVE">>} : PolicyEdgeOpen(e)
    /\ po_status = "SUSPENDED" =>
           ~ ENABLED (NextPolicy /\ po_status' = "ACTIVE")
    /\ \A i \in 1 .. Len(po_hist) :
           po_hist[i].op = "activate" /\ po_hist[i].before # "DRAFT" =>
               po_hist[i].raised = "ValueError"

\* C29 witness: activate() was called on a SUSPENDED policy with a rule
C29_Witness ==
    /\ Len(po_hist) = 4
    /\ po_hist[2].op = "activate" /\ po_hist[2].after = "ACTIVE"
    /\ po_hist[3].op = "suspend" /\ po_hist[3].after = "SUSPENDED"
    /\ po_hist[4].op = "activate" /\ po_hist[4].rules = 1
    /\ po_status = "SUSPENDED"

\* the last call was an evaluate that returned a report
Reported == en_report.called /\ en_report.raised = None /\ ~en_report.flat

\* the result of the report for the policy pid
ResultOf(pid) ==
    LET results == en_report.results
    IN results[CHOOSE i \in 1 .. Len(results) : results[i].policy_id = pid]

\* the direct predecessors of pid in the graph
PredecessorsOf(pid) == {_rev[pid][i] : i \in 1 .. Len(_rev[pid])}

\* the nodes reached from the node at the start of a path of edges
RECURSIVE DescendantsOf(_, _)
DescendantsOf(pid, steps) ==
    IF steps = 0 THEN {}
    ELSE LET succs == {_fwd[pid][i] : i \in 1 .. Len(_fwd[pid])}
         IN succs \cup UNION {DescendantsOf(s, steps - 1) : s \in succs}

C30_NoMatchWitness ==
    /\ Reported
    /\ \E i \in 1 .. Len(en_report.results) :
           LET r == en_report.results[i] IN
           /\ ~r.short_circuited
           /\ \E pre \in PredecessorsOf(r.policy_id) :
                  ResultOf(pre).decision = "NO_MATCHING_POLICY"

\* C40: in every state reached by add_rule, remove_rule, activate, suspend
\* and archive calls, a policy whose status is ACTIVE has at least one rule.
C40_ActiveHasRule == po_status = "ACTIVE" => po_rules # <<>>

\* the thread is inside _flush_buffer
InFlushBuffer(t) ==
    al_pc[t] \in {"fb_test", "fb_pop", "fb_store", "st_timestamp",
                  "st_fields", "st_count", "fb_end"}

\* the thread is inside store.append
InStoreAppend(t) == al_pc[t] \in {"st_timestamp", "st_fields", "st_count"}

\* C39: in every interleaving of start(), stop(timeout) and the flush thread
\* at most one thread at a time executes _flush_buffer, so the store never
\* has two appenders at once.
C39_SingleConsumer ==
    /\ ~(InFlushBuffer("main") /\ InFlushBuffer("flush"))
    /\ ~(InStoreAppend("main") /\ InStoreAppend("flush"))

\* the last call was an evaluate_flat
ReportedFlat == en_report.called /\ en_report.raised = None /\ en_report.flat

\* in the report no node has a direct predecessor whose decision is a denial
NoDeniedPredecessor(results) ==
    \A i \in 1 .. Len(results) :
        \A pre \in PredecessorsOf(results[i].policy_id) :
            \A j \in 1 .. Len(results) :
                results[j].policy_id = pre =>
                    results[j].decision \notin {"DENY", "RATE_LIMITED"}

\* C31: for the same engine and request, evaluate and evaluate_flat return
\* the same final_decision whenever no node has a predecessor whose decision
\* is a denial: the report of evaluate_flat is compared with the report
\* evaluate returns in the same state, when it returns one.
C31_FlatSameFinalDecision ==
    ReportedFlat /\ evaluate_report(1).raised = None
        /\ NoDeniedPredecessor(evaluate_report(1).results) =>
        en_report.final_decision = evaluate_report(1).final_decision

\* C31 witness: evaluate_flat reported on a built engine with three policies
\* in a chain, the first without a match, the second allowing, the last
\* denying
C31_Witness ==
    /\ ReportedFlat
    /\ _built
    /\ Len(en_report.results) = 3
    /\ PredecessorsOf("p2") = {"p1"}
    /\ PredecessorsOf("p3") = {"p2"}
    /\ NoDeniedPredecessor(en_report.results)
    /\ engine_decision("p1", RequestDomain, [weekday |-> 0, time |-> 2])
           = "NO_MATCHING_POLICY"
    /\ engine_decision("p2", RequestDomain, [weekday |-> 0, time |-> 2])
           = "ALLOW"
    /\ en_report.final_decision = "DENY"

\* the position of the node in the order, 0 if it is not there
PositionIn(order, n) ==
    IF \E i \in 1 .. Len(order) : order[i] = n
    THEN CHOOSE i \in 1 .. Len(order) : order[i] = n
    ELSE 0

\* order is a topological order of the engine's graph as it is now: every
\* registered policy once, each prerequisite before its dependents
OrderOfCurrentGraph(order) ==
    /\ Len(order) = Len(graph_nodes)
    /\ \A i \in 1 .. Len(graph_nodes) : PositionIn(order, graph_nodes[i]) > 0
    /\ \A i, j \in 1 .. Len(order) : order[i] = order[j] => i = j
    /\ \A n \in EngineIds : _policies[n].registered <=> PositionIn(order, n) > 0
    /\ \A n \in EngineIds : \A pre \in PredecessorsOf(n) :
           /\ PositionIn(order, pre) > 0
           /\ PositionIn(order, pre) < PositionIn(order, n)

\* C37: evaluate succeeds only if build() has completed since the last
\* register or add_dependency call: while _built holds, _order is a
\* topological order of the current graph that covers every registered
\* policy once; an evaluate returns a report, with one result per element
\* of that order, exactly when _built holds, and raises RuntimeError
\* otherwise (never built, changed after the last build, or the last build
\* raised).
C37_EvaluateNeedsBuild ==
    /\ _built => _order # NoOrder /\ OrderOfCurrentGraph(_order)
    /\ en_report.called =>
           IF _built
           THEN /\ Reported
                /\ Len(en_report.results) = Len(_order)
                /\ \A i \in 1 .. Len(_order) :
                       en_report.results[i].policy_id = _order[i]
           ELSE en_report.raised = "RuntimeError"

\* C37 witness: evaluate raised on an engine that was built and then given
\* one more policy
C37_Witness ==
    /\ en_report.called
    /\ en_report.raised = "RuntimeError"
    /\ _order # NoOrder
    /\ Len(_order) = 2
    /\ Len(graph_nodes) = 3

\* the number of times x occurs in the list
RECURSIVE Occurrences(_, _)
Occurrences(list, x) ==
    IF list = <<>> THEN 0
    ELSE (IF Head(list) = x THEN 1 ELSE 0) + Occurrences(Tail(list), x)

\* C38: after any sequence of add_node, add_edge, remove_edge and
\* remove_node calls, failed calls included, the forward and the reverse
\* adjacency map have the same keys, and v occurs among the successors of u
\* as many times as u occurs among the predecessors of v.
C38_GraphMapsAgree ==
    /\ {graph_nodes[i] : i \in 1 .. Len(graph_nodes)} = _rev_keys
    /\ \A u, v \in EngineIds :
           Occurrences(_fwd[u], v) = Occurrences(_rev[v], u)

\* C38 witness: p1 was added and removed again, and the graph keeps the
\* edge from p2 to p3
C38_Witness ==
    /\ g_calls = MaxGraphCalls
    /\ Len(graph_nodes) = 2
    /\ "p1" \notin _rev_keys
    /\ _fwd["p2"] = <<"p3">>
    /\ _rev["p3"] = <<"p2">>

\* topological_sort was the last call on the graph
Sorted == g_result.called /\ g_result.op = "topological_sort"

\* the nodes of the graph
GraphNodes == {graph_nodes[i] : i \in 1 .. Len(graph_nodes)}

\* the node lies on a cycle of the graph (a self-loop is one)
OnCycle(n) == n \in DescendantsOf(n, Len(graph_nodes))

\* the graph has a cycle
Cyclic == \E n \in GraphNodes : OnCycle(n)

\* C32: topological_sort returns a list of length node_count iff the graph
\* is acyclic; for an acyclic graph the list has every node exactly once
\* and u before v for every edge u->v; for a cyclic graph, self-loops
\* included, it raises CyclicDependencyError.
C32_TopologicalSort ==
    Sorted =>
        /\ g_result.raised = None <=> ~Cyclic
        /\ Cyclic => g_result.raised = "CyclicDependencyError"
        /\ ~Cyclic =>
               LET order == g_result.order IN
               /\ Len(order) = Len(graph_nodes)
               /\ \A n \in GraphNodes : Occurrences(order, n) = 1
               /\ \A u \in GraphNodes : \A i \in 1 .. Len(_fwd[u]) :
                      PositionIn(order, u) < PositionIn(order, _fwd[u][i])

\* C32 witness: a graph of three nodes with a node of two predecessors was
\* sorted
C32_Witness ==
    /\ Sorted
    /\ g_result.raised = None
    /\ Len(g_result.order) = 3
    /\ \E n \in GraphNodes : Len(_rev[n]) = 2 /\ _rev[n][1] # _rev[n][2]

\* C32 second case: a graph whose only cycle is a self-loop was rejected
C32_SelfLoopRejected ==
    /\ Sorted
    /\ g_result.raised = "CyclicDependencyError"
    /\ \E n \in GraphNodes : _fwd[n] = <<n>>
    /\ \A u, v \in GraphNodes : u # v => ~(OnCycle(u) /\ OnCycle(v))

\* the elements of the list
ElementsOf(list) == {list[i] : i \in 1 .. Len(list)}

\* the nodes a rejected graph is rejected for, as Kahn's algorithm leaves
\* them: the nodes on a cycle and every node reached from one
OnOrBelowCycle ==
    {n \in GraphNodes :
        \/ OnCycle(n)
        \/ \E c \in GraphNodes :
               OnCycle(c) /\ n \in DescendantsOf(c, Len(graph_nodes))}

\* C33 as stated: when topological_sort rejects a graph, the node list of
\* the CyclicDependencyError is exactly the set of the nodes that lie on
\* some cycle.
C33_RemainingAreTheCyclicNodes ==
    Sorted /\ g_result.raised = "CyclicDependencyError" =>
        ElementsOf(g_result.remaining_nodes) = {n \in GraphNodes : OnCycle(n)}

\* C33 amended: the node list has every node that lies on some cycle, and
\* besides these exactly the nodes that are reached from a cycle; each
\* listed node is listed once.
C33_RemainingAreOnOrBelowCycles ==
    Sorted /\ g_result.raised = "CyclicDependencyError" =>
        /\ ElementsOf(g_result.remaining_nodes) = OnOrBelowCycle
        /\ {n \in GraphNodes : OnCycle(n)}
               \subseteq ElementsOf(g_result.remaining_nodes)
        /\ \A n \in GraphNodes : Occurrences(g_result.remaining_nodes, n) <= 1

\* C33 witness: a rejected graph with a node above the cycle, which is not
\* listed, and a node below it, which is
C33_Witness ==
    /\ Sorted
    /\ g_result.raised = "CyclicDependencyError"
    /\ \E n \in GraphNodes :
           ~OnCycle(n) /\ n \in ElementsOf(g_result.remaining_nodes)
    /\ \E n \in GraphNodes : n \notin ElementsOf(g_result.remaining_nodes)

\* critical_path was the last call on the graph
PathAsked == g_result.called /\ g_result.op = "critical_path"

\* the paths of the graph: the non-empty sequences of nodes that follow
\* its edges
GraphPaths ==
    {p \in UNION {[1 .. k -> GraphNodes] : k \in 1 .. Len(graph_nodes)} :
        \A i \in 1 .. Len(p) - 1 : in_list(_fwd[p[i]], p[i + 1])}

\* the weight of the node, 0 if the weights do not have it
CostOf(weights, n) == IF n \in DOMAIN weights THEN weights[n] ELSE 0

\* the sum of the weights of the nodes of the path
RECURSIVE PathWeight(_, _)
PathWeight(p, weights) ==
    IF p = <<>> THEN 0
    ELSE CostOf(weights, Head(p)) + PathWeight(Tail(p), weights)

\* what C34 says of a call of critical_path
CriticalPathRight ==
    IF graph_nodes = <<>> \/ Cyclic
    THEN g_result.raised # None
    ELSE /\ g_result.raised = None
         /\ g_result.path \in GraphPaths
         /\ g_result.total_weight = PathWeight(g_result.path, g_result.weights)
         /\ \A p \in GraphPaths :
                PathWeight(p, g_result.weights) <= g_result.total_weight
         /\ in_list(g_result.path, g_result.bottleneck)
         /\ g_result.bottleneck_weight =
                CostOf(g_result.weights, g_result.bottleneck)
         /\ \A i \in 1 .. Len(g_result.path) :
                CostOf(g_result.weights, g_result.path[i])
                    <= g_result.bottleneck_weight

\* C34 as stated: on any non-empty acyclic graph with per-node weights
\* critical_path returns a path that follows edges of the graph, whose
\* total_weight is the maximum over all paths of the sum of the node
\* weights (a missing weight counts as 0), with bottleneck the heaviest
\* node of the path; an empty or cyclic graph raises an error.
C34_CriticalPath == PathAsked => CriticalPathRight

\* C34 amended: the same for weights that are not negative.
C34_CriticalPathOfCosts ==
    PathAsked /\ (\A n \in DOMAIN g_result.weights : g_result.weights[n] >= 0)
        => CriticalPathRight

\* C34 witness: two paths lead from p1 to p3, the longer one by nodes is
\* the lighter one, and a weight is missing
C34_Witness ==
    /\ PathAsked
    /\ g_result.raised = None
    /\ \A n \in DOMAIN g_result.weights : g_result.weights[n] >= 0
    /\ DOMAIN g_result.weights # EngineIds
    /\ Len(graph_nodes) = 3
    /\ \E p, q \in GraphPaths :
           /\ Len(p) = 3 /\ Len(q) = 2
           /\ p[1] = q[1] /\ p[3] = q[2]
    /\ Len(g_result.path) = 2
    /\ g_result.total_weight = 2

\* the two lists have the same elements with the same multiplicities
SameMultiset(xs, ys) ==
    \A p \in DomainPatterns : Occurrences(xs, p) = Occurrences(ys, p)

\* C35: for every collection of inserted patterns and every domain, the
\* trie matcher, the automaton matcher and the naive matcher return the
\* same patterns with the same multiplicities: what a match call returned
\* on a built matcher is compared with what the other two return for the
\* same domain.
C35_MatchersAgree ==
    dm_result.called /\ dm_built =>
        /\ SameMultiset(dm_result.result,
                        trie_match(_patterns, dm_result.domain))
        /\ SameMultiset(dm_result.result,
                        ac_search(_patterns, ac_output, dm_result.domain))
        /\ SameMultiset(dm_result.result,
                        match_naive(_patterns, dm_result.domain))

\* C36: for every set of indexed entries and every query field:v of one
\* clause (field one of domain, agent_id, decision, reason), the indexed
\* search and naive_search return the same sequence of entry indices: what
\* a search call returned is what both functions return for its query.
C36_SearchIsNaiveSearch ==
    se_result.called =>
        /\ se_result.result
               = search(_postings, se_result.field, se_result.value)
        /\ se_result.result
               = naive_search(_entries, se_result.field, se_result.value)

====
